---- MODULE Spec2Model ----
(***************************************************************************)
(* Streaming windowed-sum pipeline of dpcpp/plumbing/plumbing.cc:          *)
(* a Producer kernel slices every image row into blocks of BLOCK_SIZE      *)
(* pixels and writes them to a depth-5 pipe; the Module<0> kernel reads    *)
(* them, keeps a two-block scratch buffer and a ring of cumulative rows,   *)
(* and writes the windowed sums into destination_data.                     *)
(***************************************************************************)
EXTENDS Integers, Sequences, FiniteSets, TLC

VARIABLES
    E2XE_16M_FAST,     \* compiled-in fast dimension of the build (fixed in a behaviour)
    slow, fast,        \* reader.get_image_slow(), reader.get_image_fast()
    dataset,           \* contents of the dataset's frames, as far as read
    image_data,        \* host image buffer, flat row-major, 0-based
    destination_data,  \* device output buffer, flat row-major, 0-based
    host_sum_data,     \* host copy of destination_data made after Q.wait()
    pipe,              \* ProducerPipeToModule<0>: FIFO of blocks in flight
    h_pc, i,           \* host: position in the image loop, image index
    p_pc, p_y, p_block,          \* Producer kernel position
    m_pc, m_y, m_block,          \* Module<0> kernel position
    rows,              \* ModuleRowStore<FULL_BLOCKS>
    interim_pixels,    \* BufferedPipedPixelsArray of the current row
    nsent, nread,      \* number of pipe writes / reads in this frame
    lastRead,          \* tag of the block most recently read by the module
    written,           \* set of destination indices written in this frame
    p_read,            \* set of image indices the producer read in this frame
    history,           \* per finished frame: the image and the output left
    computed,          \* per (y, block) of this frame: the module's sum and kernel_sum
    summed,            \* the latest argument of sum_buffered_block_0, with its (y, block)
    k_rows,            \* kernel.cc run_module: its ModuleRowStore, fed the same blocks
    k_out,             \* kernel.cc run_module: the output write of its latest iteration
    capacity,          \* number of blocks the pipe holds before a write blocks
    pre_frame,         \* destination_data as it was when the frame was submitted
    rewritten,         \* destination indices written more than once in this frame
    r_pc, r_k,         \* reference calculators: phase and flat pixel position
    r_kw, r_kh,        \* reference calculators: one-direction window sizes
    r_sat, r_out,      \* summed-area table and the window sums answered from it
    b_pc,              \* translation unit: position among its static assertions
    b_kw, b_bs,        \* candidate KERNEL_WIDTH and BLOCK_SIZE of a build
    b_streamed,        \* blocks streamed by the program that build produced
    mask_size,         \* h5read.c: number of elements of the pixel mask
    mask,              \* h5read.c: flat pixel mask, 1 = valid
    module_mask,       \* h5read.c: the mask rearranged module by module
    modules_data,      \* modules->data: the image rearranged module by module
    mm_log, md_log,    \* memcpy calls made for module_mask / modules->data
    bl_pc, bl_k,       \* rearrangement: phase and flattened loop counter
    l_pc, l_i,         \* two-lane pipeline: host position and image index
    host_sum,          \* two-lane pipeline: sum of all pixels taken on the host
    lane_pipe,         \* ProducerPipeToModule<0>, <1>: pixels in flight
    lp_pc, lp_i,       \* the two producers: state and loop index i
    lm_pc, lm_i,       \* Module<0>, Module<1>: state and loop index i
    sum_pixels,        \* Module<k>: running sum
    result,            \* result[0], result[1]
    rd_pc, rd_n,       \* h5read_get_image: position and requested image n
    data_files,        \* obj->data_files: frames and offset of each data file
    frames,            \* obj->frames
    data_file,         \* h5read_get_image: index of the file search
    rd_reads,          \* dataset reads made by h5read_get_image
    rd_result,         \* the image it returned, if any
    o_pc,              \* h5read_open: position
    o_files,           \* h5read_open: what the master file and the data files hold
    o_j,               \* h5read_open: loop counter j over the data files
    o_frames,          \* h5read_open: file->frames
    o_handle,          \* h5read_open: the handle object, once allocated and until freed
    o_result,          \* h5read_open: the value returned, if it returned
    s_pc,              \* fpga_index_selector(selector): position
    selector,          \* fpga_index_selector: the constructor's argument
    platforms,         \* sycl::platform::get_platforms(): names and device names
    devices,           \* fpga_index_selector: the list get_device_list returned
    indexed_device_name   \* fpga_index_selector: the member set by the constructor

cfgVars == <<E2XE_16M_FAST, slow, fast, capacity>>

refVars == <<r_pc, r_k, r_kw, r_kh, r_sat, r_out>>

bldVars == <<b_pc, b_kw, b_bs, b_streamed>>

blitVars == <<mask_size, mask, module_mask, modules_data, mm_log, md_log,
              bl_pc, bl_k>>

laneVars == <<l_pc, l_i, host_sum, lane_pipe, lp_pc, lp_i, lm_pc, lm_i,
              sum_pixels, result>>

rdVars == <<rd_pc, rd_n, data_files, frames, data_file, rd_reads, rd_result>>

openVars == <<o_pc, o_files, o_j, o_frames, o_handle, o_result>>

selVars == <<s_pc, selector, platforms, devices, indexed_device_name>>

auxVars == <<bldVars, blitVars, laneVars, rdVars, openVars, selVars>>

pipeVars == <<image_data, destination_data, host_sum_data, pipe, h_pc, i,
              p_pc, p_y, p_block, m_pc, m_y, m_block, rows, interim_pixels,
              nsent, nread, lastRead, written, p_read, history, dataset,
              computed, summed, k_rows, k_out, pre_frame, rewritten>>

notBld == <<cfgVars, pipeVars, refVars, blitVars, laneVars, rdVars, openVars, selVars>>

notBlit == <<cfgVars, pipeVars, refVars, bldVars, laneVars, rdVars, openVars, selVars>>

notLane == <<cfgVars, pipeVars, refVars, bldVars, blitVars, rdVars, openVars, selVars>>

notRd == <<cfgVars, pipeVars, refVars, bldVars, blitVars, laneVars, openVars,
          selVars>>

notOpen == <<cfgVars, pipeVars, refVars, bldVars, blitVars, laneVars, rdVars,
            selVars>>

notSel == <<cfgVars, pipeVars, refVars, bldVars, blitVars, laneVars, rdVars,
           openVars>>

vars == <<cfgVars, image_data, destination_data, host_sum_data, pipe, h_pc, i,
          p_pc, p_y, p_block, m_pc, m_y, m_block, rows, interim_pixels,
          nsent, nread, lastRead, written, p_read, history, dataset,
          computed, summed, k_rows, k_out, pre_frame, rewritten, refVars,
          auxVars>>

----------------------------------------------------------------------------
(* Program constants *)

KERNEL_WIDTH == 3
KERNEL_HEIGHT == 3
FULL_KERNEL_HEIGHT == KERNEL_HEIGHT * 2 + 1
BLOCK_SIZE == 16
PIPE_DEPTH == 5
BUFFER_SIZE == BLOCK_SIZE * 2 + KERNEL_WIDTH

(* Bounds of the model *)

MaxSlow == 15          \* rows of the second geometry
BlockRemainder == 4    \* trailing columns of the second geometry
NumImages == 2         \* reader.get_number_of_images()
MaxRefSlow == 3        \* largest image of the reference calculators
MaxRefFast == 3
MaxRefKernel == 2      \* largest one-direction window of the reference calculators

UINT16 == 65536
SIZE_BITS == 64

----------------------------------------------------------------------------
(* Arithmetic of the element type (uint16_t) and of size_t *)

Add16Mut(a, b) == IF a + b >= UINT16 THEN UINT16 - 1 ELSE a + b

Add16(a, b) == (a + b) % UINT16

Sub16(a, b) == (a - b + UINT16) % UINT16

RECURSIVE Pow2Mod(_, _)
Pow2Mod(k, m) ==
    IF k = 0 THEN 1 % m
    ELSE IF k % 2 = 1 THEN (2 * Pow2Mod(k - 1, m)) % m
    ELSE LET h == Pow2Mod(k \div 2, m) IN (h * h) % m

\* (a - 1) % m computed on an unsigned SIZE_BITS-wide a
SizeDecMod(a, m) ==
    IF a >= 1 THEN (a - 1) % m ELSE (Pow2Mod(SIZE_BITS, m) + m - 1) % m

BLOCK_REMAINDER == E2XE_16M_FAST % BLOCK_SIZE

FULL_BLOCKS == (E2XE_16M_FAST - BLOCK_REMAINDER) \div BLOCK_SIZE

num_pixels == slow * fast

Lanes == 0 .. (BLOCK_SIZE - 1)

ZeroBlock == [p \in Lanes |-> 0]

BlockAddMut(l, r) == l

BlockAdd(l, r) == [p \in Lanes |-> Add16(l[p], r[p])]

BlockSubMut(l, r) == l

BlockSub(l, r) == [p \in Lanes |-> Sub16(l[p], r[p])]

----------------------------------------------------------------------------
(* Inputs: detector geometries and image contents *)

Geometries ==
    { [s |-> 2 * BLOCK_SIZE, f |-> 2 * BLOCK_SIZE],
      [s |-> MaxSlow,        f |-> 3 * BLOCK_SIZE + BlockRemainder] }

PatternOrder == <<"ones", "spot", "high", "max">>

Patterns == {PatternOrder[n] : n \in DOMAIN PatternOrder}

NextPattern(pat) ==
    LET n == CHOOSE k \in DOMAIN PatternOrder : PatternOrder[k] = pat
    IN  PatternOrder[(n % Len(PatternOrder)) + 1]

PixelOf(pat, y, x) ==
    CASE pat = "ones" -> 1
      [] pat = "spot" -> IF y = 10 /\ x = 10 THEN 1000 ELSE 0
      [] pat = "high" -> 1000 + ((7 * y + 3 * x + 1) % 251)
      [] pat = "max"  -> UINT16 - 1

ImageOf(pat, s, f) ==
    [k \in 0 .. (s * f - 1) |-> PixelOf(pat, k \div f, k % f)]

\* the datasets considered: frame 0 shows any pattern, frame 1 the same
\* pattern or the next one, and later frames alternate between these two
FramePatterns(n) ==
    IF n = 0 THEN Patterns
    ELSE IF n = 1 THEN {dataset[1], NextPattern(dataset[1])}
    ELSE {dataset[(n % 2) + 1]}

\* values an uninitialised or out-of-range uint16_t cell may hold
Garbage == {0, UINT16 - 1}

----------------------------------------------------------------------------
(* Pure helpers of the Module kernel *)

BlockIndexMut(y, block, p) ==
    y * fast + block * BLOCK_SIZE + p + BLOCK_REMAINDER

\* index of element p of host_ptr<PipedPixelsArray>(image_data + y * fast)[block]
BlockIndex(y, block, p) == y * fast + block * BLOCK_SIZE + p

\* the block value read there; g stands for bytes beyond the allocation
ReadBlock(y, block, g) ==
    [p \in Lanes |->
        LET idx == BlockIndex(y, block, p)
        IN  IF idx < num_pixels THEN image_data[idx] ELSE g]

ZeroBufferMut == [k \in 0 .. (BUFFER_SIZE - 1) |-> 1]

ZeroBuffer == [k \in 0 .. (BUFFER_SIZE - 1) |-> 0]

\* interim_blocks[n] = blk, with interim_blocks = &interim_pixels[KERNEL_WIDTH]
SetInterimBlock(buf, n, blk) ==
    [k \in 0 .. (BUFFER_SIZE - 1) |->
        IF /\ k >= KERNEL_WIDTH + n * BLOCK_SIZE
           /\ k <  KERNEL_WIDTH + (n + 1) * BLOCK_SIZE
        THEN blk[k - KERNEL_WIDTH - n * BLOCK_SIZE]
        ELSE buf[k]]

RECURSIVE SumRange(_, _, _)
SumRange(buf, lo, hi) ==
    IF lo > hi THEN 0 ELSE Add16(buf[lo], SumRange(buf, lo + 1, hi))

sum_buffered_block_0_mut(buffer) ==
    [center \in Lanes |->
        SumRange(buffer, center, KERNEL_WIDTH + center + KERNEL_WIDTH - 1)]

sum_buffered_block_0(buffer) ==
    [center \in Lanes |->
        SumRange(buffer, center, KERNEL_WIDTH + center + KERNEL_WIDTH)]

ShiftLeftMut(buf) ==
    [k \in 0 .. (BUFFER_SIZE - 1) |->
        IF k < BLOCK_SIZE THEN buf[BLOCK_SIZE + k] ELSE buf[k]]

\* for i < KERNEL_WIDTH + BLOCK_SIZE: interim_pixels[i] = interim_pixels[BLOCK_SIZE + i]
ShiftLeft(buf) ==
    [k \in 0 .. (BUFFER_SIZE - 1) |->
        IF k < KERNEL_WIDTH + BLOCK_SIZE THEN buf[BLOCK_SIZE + k] ELSE buf[k]]

ZeroRowsMut == rows

ZeroRows ==
    [zr \in 0 .. (FULL_KERNEL_HEIGHT - 1) |->
        [zb \in 0 .. (FULL_BLOCKS - 1) |-> ZeroBlock]]

\* *reinterpret_cast<PipedPixelsArray*>(&destination_data_d[offset]) = kernel_sum
WriteBlock(dest, offset, blk) ==
    [k \in DOMAIN dest |->
        IF k >= offset /\ k < offset + BLOCK_SIZE THEN blk[k - offset] ELSE dest[k]]

----------------------------------------------------------------------------
(* Initial state: the build is fixed, the buffers are allocated, nothing has run *)

InitIdle ==
    /\ host_sum_data = << >>
    /\ pipe = << >>
    /\ i = 0
    /\ p_pc = "idle" /\ p_y = 0 /\ p_block = 0
    /\ m_pc = "idle" /\ m_y = 0 /\ m_block = 0
    /\ interim_pixels = ZeroBuffer
    /\ nsent = 0 /\ nread = 0
    /\ lastRead = << >>
    /\ written = {}
    /\ p_read = {}
    /\ history = << >>
    /\ computed = << >>
    /\ summed = << >>
    /\ k_rows = << >> /\ k_out = << >>
    /\ pre_frame = << >> /\ rewritten = {}

\* the build under study is the one of the sources: nothing left to compile
BuildIdle ==
    /\ b_pc = "idle" /\ b_kw = KERNEL_WIDTH /\ b_bs = BLOCK_SIZE /\ b_streamed = 0

\* no mask has been read and no image rearranged
BlitIdle ==
    /\ mask_size = 0 /\ mask = << >> /\ module_mask = << >>
    /\ modules_data = << >> /\ mm_log = << >> /\ md_log = << >>
    /\ bl_pc = "idle" /\ bl_k = 0

\* the two-lane pipeline has not been started
LanesIdle ==
    /\ l_pc = "idle" /\ l_i = 0 /\ host_sum = 0
    /\ lane_pipe = << >> /\ lp_pc = << >> /\ lp_i = << >>
    /\ lm_pc = << >> /\ lm_i = << >> /\ sum_pixels = << >> /\ result = << >>

\* no image has been requested from the reader
ReaderIdle ==
    /\ rd_pc = "idle" /\ rd_n = 0 /\ data_files = << >> /\ frames = 0
    /\ data_file = 0 /\ rd_reads = << >> /\ rd_result = << >>

OpenIdle ==
    /\ o_pc = "idle" /\ o_files = << >> /\ o_j = 0 /\ o_frames = 0
    /\ o_handle = << >> /\ o_result = << >>

SelectorIdle ==
    /\ s_pc = "idle" /\ selector = 0 /\ platforms = << >> /\ devices = << >>
    /\ indexed_device_name = << >>

AuxIdle ==
    /\ BuildIdle /\ BlitIdle /\ LanesIdle /\ ReaderIdle
    /\ OpenIdle /\ SelectorIdle

InitProgram ==
    /\ AuxIdle
    /\ \E g \in Geometries :
         /\ E2XE_16M_FAST = g.f
         /\ slow = g.s
         /\ fast = g.f
    /\ dataset = << >>
    /\ image_data = [k \in 0 .. (num_pixels - 1) |-> 0]
    /\ \E d \in Garbage :
         /\ destination_data = [k \in 0 .. (num_pixels - 1) |-> d]
         /\ rows = [zr \in 0 .. (FULL_KERNEL_HEIGHT - 1) |->
                     [zb \in 0 .. (FULL_BLOCKS - 1) |-> [p \in Lanes |-> d]]]
    /\ h_pc = "read"
    /\ InitIdle
    /\ r_pc = "idle" /\ r_k = 0 /\ r_kw = 0 /\ r_kh = 0
    /\ r_sat = << >> /\ r_out = << >>

\* the pipe of the sources: SYCL_INTEL::pipe<..., PipedPixelsArray, 5>
Init ==
    /\ InitProgram
    /\ capacity = PIPE_DEPTH

----------------------------------------------------------------------------
(* Host: one iteration of the image loop *)

\* reader.get_image_into(i, image_data); Q.submit(Producer); Q.submit(Module<0>)
HostSubmit ==
    /\ h_pc = "read"
    /\ i < NumImages
    /\ \E pat \in FramePatterns(i) :
         /\ image_data' = ImageOf(pat, slow, fast)
         /\ dataset' = IF i < 2 THEN Append(dataset, pat) ELSE dataset
    /\ h_pc' = "wait"
    /\ p_pc' = "run" /\ p_y' = 0 /\ p_block' = 0
    /\ m_pc' = "start" /\ m_y' = 0 /\ m_block' = 0
    /\ nsent' = 0 /\ nread' = 0 /\ lastRead' = << >>
    /\ written' = {} /\ p_read' = {}
    /\ computed' = << >>
    /\ summed' = << >>
    /\ k_out' = << >>
    /\ pre_frame' = destination_data
    /\ rewritten' = {}
    /\ UNCHANGED <<cfgVars, refVars, auxVars, k_rows, destination_data, host_sum_data,
                   pipe, i, rows, interim_pixels, history>>

\* Q.wait(); memcpy(host_sum_data, destination_data); next i
HostWait ==
    /\ h_pc = "wait"
    /\ p_pc = "done"
    /\ m_pc = "done"
    /\ host_sum_data' = destination_data
    /\ history' = Append(history, [img |-> image_data, out |-> destination_data])
    /\ i' = i + 1
    /\ h_pc' = IF i + 1 < NumImages THEN "read" ELSE "exit"
    /\ p_pc' = "idle" /\ m_pc' = "idle"
    /\ UNCHANGED <<cfgVars, refVars, auxVars, k_rows, k_out, pre_frame, rewritten, computed, summed, dataset, image_data, destination_data,
                   pipe, p_y, p_block, m_y, m_block, rows, interim_pixels,
                   nsent, nread, lastRead, written, p_read>>

----------------------------------------------------------------------------
(* Producer kernel *)

PipeFullMut == Len(pipe) > capacity

\* a write blocks while the pipe holds as many blocks as its capacity
PipeFull == Len(pipe) >= capacity

\* a read blocks while the pipe holds nothing
PipeEmpty == Len(pipe) = 0

PipeWriteMut(q, m) == <<m>> \o q

\* pipe::write appends at the tail, pipe::read takes the head
PipeWrite(q, m) == Append(q, m)

\* image indices covered by image_data_h[block] of row y
BlockIndices(y, block) == {BlockIndex(y, block, p) : p \in Lanes}

ProducerWriteMut ==
    /\ p_pc = "run"
    /\ p_y < slow /\ p_block < FULL_BLOCKS
    /\ ~PipeFull
    /\ \E g \in Garbage :
         pipe' = PipeWrite(pipe, [data |-> ReadBlock(p_y, p_block, g),
                                  tag  |-> <<p_y, p_block>>])
    /\ image_data' = [k \in DOMAIN image_data |->
                         IF k \in BlockIndices(p_y, p_block) THEN 0 ELSE image_data[k]]
    /\ p_read' = p_read \cup BlockIndices(p_y, p_block)
    /\ nsent' = nsent + 1
    /\ IF p_block + 1 < FULL_BLOCKS
       THEN /\ p_block' = p_block + 1
            /\ p_y' = p_y
            /\ p_pc' = "run"
       ELSE /\ p_block' = 0
            /\ p_y' = p_y + 1
            /\ p_pc' = IF p_y + 1 < slow THEN "run" ELSE "done"
    /\ UNCHANGED <<cfgVars, refVars, auxVars, k_rows, k_out, pre_frame, rewritten, computed, summed, dataset, destination_data,
                   host_sum_data, h_pc, i, m_pc, m_y, m_block, rows,
                   interim_pixels, nread, lastRead, written, history>>

\* ProducerPipeToModule<0>::write(image_data_h[block]) and the loop increments
ProducerWrite ==
    /\ p_pc = "run"
    /\ p_y < slow /\ p_block < FULL_BLOCKS
    /\ ~PipeFull
    /\ \E g \in Garbage :
         pipe' = PipeWrite(pipe, [data |-> ReadBlock(p_y, p_block, g),
                                  tag  |-> <<p_y, p_block>>])
    /\ p_read' = p_read \cup BlockIndices(p_y, p_block)
    /\ nsent' = nsent + 1
    /\ IF p_block + 1 < FULL_BLOCKS
       THEN /\ p_block' = p_block + 1
            /\ p_y' = p_y
            /\ p_pc' = "run"
       ELSE /\ p_block' = 0
            /\ p_y' = p_y + 1
            /\ p_pc' = IF p_y + 1 < slow THEN "run" ELSE "done"
    /\ UNCHANGED <<cfgVars, refVars, auxVars, k_rows, k_out, pre_frame, rewritten, computed, summed, dataset, image_data, destination_data,
                   host_sum_data, h_pc, i, m_pc, m_y, m_block, rows,
                   interim_pixels, nread, lastRead, written, history>>

----------------------------------------------------------------------------
(* Module<0> kernel *)

InnerBlocksMut == FULL_BLOCKS

\* bound of the block loop: for (block = 0; block < FULL_BLOCKS - 1; ++block)
InnerBlocks == FULL_BLOCKS - 1

dest_offset_mut(y, block) == y * fast + block * BLOCK_SIZE

\* &destination_data_d[(y - KERNEL_HEIGHT) * fast + block * BLOCK_SIZE]
dest_offset(y, block) == (y - KERNEL_HEIGHT) * fast + block * BLOCK_SIZE

prev_row_store_mut(y) == y % FULL_KERNEL_HEIGHT

\* int prev_row_store = (y - 1) % FULL_KERNEL_HEIGHT, y being a size_t
prev_row_store(y) == SizeDecMod(y, FULL_KERNEL_HEIGHT)

swap_row_store_mut(y) == y % (2 * KERNEL_HEIGHT)

\* int swap_row_store = y % FULL_KERNEL_HEIGHT
swap_row_store(y) == y % FULL_KERNEL_HEIGHT

\* kernel.cc: the compiled-in fast dimension of the image
FAST == E2XE_16M_FAST

prev_row_index_mut(y) == (y + FULL_KERNEL_HEIGHT) % FULL_KERNEL_HEIGHT

\* kernel.cc: int prev_row_index = (y + FULL_KERNEL_HEIGHT - 1) % FULL_KERNEL_HEIGHT
prev_row_index(y) == (y + FULL_KERNEL_HEIGHT - 1) % FULL_KERNEL_HEIGHT

\* kernel.cc: int oldest_row_index = y % FULL_KERNEL_HEIGHT
oldest_row_index(y) == y % FULL_KERNEL_HEIGHT

\* kernel.cc: new_row and kernel_sum of one iteration of run_module's block loop
run_module_new_row(krows, sum, y, block) ==
    BlockAdd(sum, krows[prev_row_index(y)][block])

run_module_kernel_sum(krows, sum, y, block) ==
    BlockSub(run_module_new_row(krows, sum, y, block),
             krows[oldest_row_index(y)][block])

\* kernel.cc: the element loop destination_data_h[offset + i] = kernel_sum[i]
run_module_write(krows, sum, y, block) ==
    IF y >= KERNEL_HEIGHT
    THEN <<[offset |-> (y - KERNEL_HEIGHT) * FAST + block * BLOCK_SIZE,
            values |-> run_module_kernel_sum(krows, sum, y, block)]>>
    ELSE << >>

\* ModuleRowStore<FULL_BLOCKS> rows; initialise this to zeros
ModuleStart ==
    /\ m_pc = "start"
    /\ rows' = ZeroRows
    /\ k_rows' = ZeroRows
    /\ m_pc' = IF slow > 0 THEN "row" ELSE "done"
    /\ UNCHANGED <<cfgVars, refVars, auxVars, k_out, pre_frame, rewritten, computed, summed, dataset, image_data, destination_data,
                   host_sum_data, pipe, h_pc, i, p_pc, p_y, p_block, m_y,
                   m_block, interim_pixels, nsent, nread, lastRead, written,
                   p_read, history>>

\* BufferedPipedPixelsArray interim_pixels{}; interim_blocks[0] = read()
ModuleReadFirst ==
    /\ m_pc = "row"
    /\ ~PipeEmpty
    /\ interim_pixels' = SetInterimBlock(ZeroBuffer, 0, Head(pipe).data)
    /\ lastRead' = Head(pipe).tag
    /\ pipe' = Tail(pipe)
    /\ nread' = nread + 1
    /\ m_block' = 0
    /\ IF 0 < InnerBlocks
       THEN m_pc' = "blk" /\ m_y' = m_y
       ELSE /\ m_y' = m_y + 1
            /\ m_pc' = IF m_y + 1 < slow THEN "row" ELSE "done"
    /\ UNCHANGED <<cfgVars, refVars, auxVars, k_rows, k_out, pre_frame, rewritten, computed, summed, dataset, image_data, destination_data,
                   host_sum_data, h_pc, i, p_pc, p_y, p_block, rows, nsent,
                   written, p_read, history>>

\* one iteration of the block loop: read, horizontal sum, shift, row update, output
ModuleReadNext ==
    /\ m_pc = "blk"
    /\ ~PipeEmpty
    /\ LET buf        == SetInterimBlock(interim_pixels, 1, Head(pipe).data)
           sum        == sum_buffered_block_0(buf)
           prev_row   == rows[prev_row_store(m_y)][m_block]
           oldest_row == rows[swap_row_store(m_y)][m_block]
           new_row    == BlockAdd(sum, prev_row)
           kernel_sum == BlockSub(new_row, oldest_row)
           offset     == dest_offset(m_y, m_block)
       IN  /\ interim_pixels' = ShiftLeft(buf)
           /\ rows' = [rows EXCEPT ![swap_row_store(m_y)][m_block] = new_row]
           /\ summed' = <<[y |-> m_y, block |-> m_block, buffer |-> buf]>>
           /\ k_rows' = [k_rows EXCEPT ![oldest_row_index(m_y)][m_block] =
                             run_module_new_row(k_rows, sum, m_y, m_block)]
           /\ k_out' = run_module_write(k_rows, sum, m_y, m_block)
           /\ computed' = computed @@ (<<m_y, m_block>> :>
                                          [sum |-> sum, kernel_sum |-> kernel_sum])
           /\ IF m_y >= KERNEL_HEIGHT
              THEN /\ destination_data' = WriteBlock(destination_data, offset, kernel_sum)
                   /\ written' = written \cup {offset + p : p \in Lanes}
                   /\ rewritten' = rewritten \cup
                                       (written \cap {offset + p : p \in Lanes})
              ELSE UNCHANGED <<destination_data, written, rewritten>>
    /\ lastRead' = Head(pipe).tag
    /\ pipe' = Tail(pipe)
    /\ nread' = nread + 1
    /\ IF m_block + 1 < InnerBlocks
       THEN m_block' = m_block + 1 /\ m_y' = m_y /\ m_pc' = "blk"
       ELSE /\ m_block' = 0
            /\ m_y' = m_y + 1
            /\ m_pc' = IF m_y + 1 < slow THEN "row" ELSE "done"
    /\ UNCHANGED <<cfgVars, refVars, auxVars, dataset, image_data, host_sum_data, h_pc,
                   i, p_pc, p_y, p_block, nsent, p_read, history, pre_frame>>

----------------------------------------------------------------------------

Next ==
    \/ HostSubmit
    \/ HostWait
    \/ ProducerWrite
    \/ ModuleStart
    \/ ModuleReadFirst
    \/ ModuleReadNext

Spec == Init /\ [][Next]_vars

(* Reference calculators (section 4.3 of the specification) *)

Max(a, b) == IF a >= b THEN a ELSE b

Min(a, b) == IF a <= b THEN a ELSE b

RECURSIVE RowSum(_, _, _, _, _)
RowSum(img, f, y, x0, x1) ==
    IF x0 > x1 THEN 0 ELSE img[y * f + x0] + RowSum(img, f, y, x0 + 1, x1)

RECURSIVE BoxSum(_, _, _, _, _, _)
BoxSum(img, f, y0, y1, x0, x1) ==
    IF y0 > y1 THEN 0
    ELSE RowSum(img, f, y0, x0, x1) + BoxSum(img, f, y0 + 1, y1, x0, x1)

\* direct sum over the window clamped to the image bounds
BruteForceWindowSum(img, s, f, kw, kh, y, x) ==
    BoxSum(img, f, Max(0, y - kh), Min(s - 1, y + kh),
           Max(0, x - kw), Min(f - 1, x + kw))

\* inclusive prefix sum at flat position k, from the entries already built
SATEntry(sat, img, f, k) ==
    img[k]
    + (IF k \div f > 0 THEN sat[k - f] ELSE 0)
    + (IF k % f > 0 THEN sat[k - 1] ELSE 0)
    - (IF k \div f > 0 /\ k % f > 0 THEN sat[k - f - 1] ELSE 0)

\* table entry (y, x), zero above and left of the image
SATAt(sat, f, y, x) == IF y < 0 \/ x < 0 THEN 0 ELSE sat[y * f + x]

SATWindowSumMut(sat, s, f, kw, kh, y, x) ==
    LET y0 == Max(0, y - kh)
        y1 == Min(s - 1, y + kh)
        x0 == Max(0, x - kw)
        x1 == Min(f - 1, x + kw)
    IN  SATAt(sat, f, y1, x1) - SATAt(sat, f, y0, x1)
        - SATAt(sat, f, y1, x0) + SATAt(sat, f, y0, x0)

\* four-corner inclusion-exclusion over the clamped window
SATWindowSum(sat, s, f, kw, kh, y, x) ==
    LET y0 == Max(0, y - kh)
        y1 == Min(s - 1, y + kh)
        x0 == Max(0, x - kw)
        x1 == Min(f - 1, x + kw)
    IN  SATAt(sat, f, y1, x1) - SATAt(sat, f, y0 - 1, x1)
        - SATAt(sat, f, y1, x0 - 1) + SATAt(sat, f, y0 - 1, x0 - 1)

RefImages(s, f) ==
    { [k \in 0 .. (s * f - 1) |-> IF k = hot THEN 1 ELSE 0] :
          hot \in 0 .. (s * f - 1) }
    \cup { [k \in 0 .. (s * f - 1) |-> k + 1] }

InitRef ==
    /\ capacity = PIPE_DEPTH
    /\ AuxIdle
    /\ \E s \in 1 .. MaxRefSlow : \E f \in 1 .. MaxRefFast :
         /\ slow = s /\ fast = f /\ E2XE_16M_FAST = f
         /\ image_data \in RefImages(s, f)
         /\ r_sat = [k \in 0 .. (s * f - 1) |-> 0]
         /\ r_out = [k \in 0 .. (s * f - 1) |-> 0]
    /\ dataset = << >>
    /\ destination_data = << >>
    /\ rows = << >>
    /\ h_pc = "ref"
    /\ InitIdle
    /\ r_pc = "build" /\ r_k = 0
    /\ r_kw \in 0 .. MaxRefKernel
    /\ r_kh \in 0 .. MaxRefKernel

\* one step of the single pass that builds the table
SATBuildStep ==
    /\ r_pc = "build"
    /\ r_sat' = [r_sat EXCEPT ![r_k] = SATEntry(r_sat, image_data, fast, r_k)]
    /\ IF r_k + 1 < num_pixels
       THEN r_k' = r_k + 1 /\ r_pc' = "build"
       ELSE r_k' = 0 /\ r_pc' = "query"
    /\ UNCHANGED <<cfgVars, pipeVars, auxVars, r_kw, r_kh, r_out>>

\* one window query answered from the table
SATQueryStep ==
    /\ r_pc = "query"
    /\ r_out' = [r_out EXCEPT ![r_k] =
                    SATWindowSum(r_sat, slow, fast, r_kw, r_kh,
                                 r_k \div fast, r_k % fast)]
    /\ IF r_k + 1 < num_pixels
       THEN r_k' = r_k + 1 /\ r_pc' = "query"
       ELSE r_k' = 0 /\ r_pc' = "done"
    /\ UNCHANGED <<cfgVars, pipeVars, auxVars, r_kw, r_kh, r_sat>>

NextRef ==
    \/ SATBuildStep
    \/ SATQueryStep

SpecRef == InitRef /\ [][NextRef]_vars

----------------------------------------------------------------------------
\* the kernels submitted to the queue run until they finish or block on the pipe
SpecFair ==
    /\ Spec
    /\ WF_vars(ProducerWrite)
    /\ WF_vars(ModuleStart)
    /\ WF_vars(ModuleReadFirst)
    /\ WF_vars(ModuleReadNext)

----------------------------------------------------------------------------
(* Window sums over an image, used to state the properties *)

\* the full window centred on (r, x); only used where the window is inside the image
UnclampedSum(r, x) ==
    BoxSum(image_data, fast, r - KERNEL_HEIGHT, r + KERNEL_HEIGHT,
           x - KERNEL_WIDTH, x + KERNEL_WIDTH)

\* the window centred on output cell k, cut at the top and left image edges
TopLeftCutSum(img, k) ==
    BoxSum(img, fast,
           Max(0, (k \div fast) - KERNEL_HEIGHT), (k \div fast) + KERNEL_HEIGHT,
           Max(0, (k % fast) - KERNEL_WIDTH), (k % fast) + KERNEL_WIDTH)

InteriorRows == KERNEL_HEIGHT .. (slow - KERNEL_HEIGHT - 1)

\* columns whose whole horizontal window lies inside the streamed blocks
StreamedSupportCols ==
    KERNEL_WIDTH .. (FULL_BLOCKS * BLOCK_SIZE - KERNEL_WIDTH - 1)

\* columns of the blocks the module sums: all but the last block of a row
SummedSupportCols ==
    KERNEL_WIDTH .. ((FULL_BLOCKS - 1) * BLOCK_SIZE - 1)

BlockId(k) == <<k \div FULL_BLOCKS, k % FULL_BLOCKS>>

FrameOver == m_pc = "done" /\ p_pc = "done"

----------------------------------------------------------------------------
\* C1 (as stated): after the frame's run, every output cell (r, x) with
\* KERNEL_HEIGHT <= r < slow-KERNEL_HEIGHT whose horizontal neighbours all lie
\* in the streamed full blocks holds the unclamped brute-force window sum.
C1_AsStated ==
    FrameOver =>
        \A r \in InteriorRows : \A x \in StreamedSupportCols :
            destination_data[r * fast + x] = UnclampedSum(r, x)

\* C1 (amended): for an image of the build's geometry, after the frame's run
\* every output cell (r, x) with KERNEL_HEIGHT <= r < slow-KERNEL_HEIGHT and
\* KERNEL_WIDTH <= x < (FULL_BLOCKS-1)*BLOCK_SIZE holds the unclamped
\* brute-force window sum modulo 2^16.
C1_EngineMatchesBruteForce ==
    (FrameOver /\ fast = E2XE_16M_FAST) =>
        \A r \in InteriorRows : \A x \in SummedSupportCols :
            destination_data[r * fast + x] = UnclampedSum(r, x) % UINT16

C1_Witness ==
    /\ FrameOver
    /\ FULL_BLOCKS >= 3
    /\ (KERNEL_HEIGHT * fast + BLOCK_SIZE) \in written
    /\ UnclampedSum(KERNEL_HEIGHT, BLOCK_SIZE) \in 1 .. (UINT16 - 1)
    /\ destination_data[KERNEL_HEIGHT * fast + BLOCK_SIZE]
         = UnclampedSum(KERNEL_HEIGHT, BLOCK_SIZE)

----------------------------------------------------------------------------
\* C2: every window sum answered from the summed-area table equals the
\* brute-force sum over the window clamped to the image bounds.
C2_SATEqualsBruteForce ==
    \A k \in DOMAIN r_out :
        (r_pc = "done" \/ (r_pc = "query" /\ k < r_k)) =>
            r_out[k] = BruteForceWindowSum(image_data, slow, fast, r_kw, r_kh,
                                           k \div fast, k % fast)

C2_Witness ==
    /\ r_pc = "done"
    /\ slow >= 3 /\ fast >= 3
    /\ r_kw = 1 /\ r_kh = 1
    /\ r_out[fast + 1] = BoxSum(image_data, fast, 0, 2, 0, 2)
    /\ r_out[fast + 1] > r_out[0]
    /\ r_out[0] > 0

----------------------------------------------------------------------------
\* C3: blocks are sent in row-major order and received in the order sent:
\* the k-th block read in a frame is block (k div FULL_BLOCKS, k mod
\* FULL_BLOCKS), and the pipe holds exactly the blocks sent and not yet read.
C3_FifoOrder ==
    /\ nsent = nread + Len(pipe)
    /\ \A k \in 1 .. Len(pipe) : pipe[k].tag = BlockId(nread + k - 1)
    /\ (nread > 0) => (lastRead = BlockId(nread - 1))
    /\ (p_pc = "run") => (<<p_y, p_block>> = BlockId(nsent))

C3_Witness ==
    /\ nread > FULL_BLOCKS
    /\ Len(pipe) >= 2
    /\ lastRead = BlockId(nread - 1)
    /\ pipe[1].tag = BlockId(nread)

----------------------------------------------------------------------------
\* C4: the pipe never holds more than PIPE_DEPTH blocks; no write happens
\* on a full pipe and no read happens on an empty pipe.
C4_BoundedChannel ==
    /\ [](Len(pipe) <= PIPE_DEPTH)
    /\ [][/\ (nsent' = nsent + 1) => (Len(pipe) < PIPE_DEPTH)
          /\ (nread' = nread + 1) => (Len(pipe) > 0)]_vars

C4_Witness ==
    /\ Len(pipe) = PIPE_DEPTH
    /\ p_pc = "run"
    /\ m_pc \in {"row", "blk"}

----------------------------------------------------------------------------
\* C5: under fair scheduling every launched frame runs to completion with
\* slow*FULL_BLOCKS blocks sent, as many received, and an empty pipe; the pipe
\* is empty whenever no frame is running.
C5_FrameTerminates ==
    /\ (h_pc = "wait") ~>
           (/\ FrameOver
            /\ nsent = slow * FULL_BLOCKS
            /\ nread = slow * FULL_BLOCKS
            /\ pipe = << >>)
    /\ []((h_pc # "wait") => (pipe = << >>))
    /\ [](FrameOver => (nsent = slow * FULL_BLOCKS /\ nread = nsent))

C5_Witness ==
    /\ FrameOver
    /\ i = 1
    /\ nread = slow * FULL_BLOCKS
    /\ pipe = << >>

----------------------------------------------------------------------------
\* C6 (as stated): the engine writes no output row r < KERNEL_HEIGHT and none
\* of the final KERNEL_HEIGHT output rows.
C6_AsStated ==
    \A k \in written :
        /\ (k \div fast) >= KERNEL_HEIGHT
        /\ (k \div fast) < slow - KERNEL_HEIGHT

WrittenRows == {k \div fast : k \in written}

\* C6 (amended): the engine writes nothing while it consumes input rows
\* y < KERNEL_HEIGHT and never writes any of the final KERNEL_HEIGHT output
\* rows; the output rows it writes in a frame are 0 .. slow-KERNEL_HEIGHT-1,
\* the first KERNEL_HEIGHT of them included.
C6_EdgeTruncation ==
    /\ \A k \in written : (k \div fast) < slow - KERNEL_HEIGHT
    /\ (m_y < KERNEL_HEIGHT) => (written = {})
    /\ (FrameOver /\ FULL_BLOCKS >= 2) =>
           (WrittenRows = 0 .. (slow - KERNEL_HEIGHT - 1))

C6_Witness ==
    /\ FrameOver
    /\ 0 \in written
    /\ ((slow - KERNEL_HEIGHT - 1) * fast) \in written

----------------------------------------------------------------------------
\* C7: no pixel of the trailing columns [FULL_BLOCKS*BLOCK_SIZE, fast) is read
\* by the producer or written by the engine; every block in the pipe is the
\* BLOCK_SIZE consecutive pixels of columns [b*BLOCK_SIZE, (b+1)*BLOCK_SIZE)
\* of one image row.
C7_RemainderDropped ==
    /\ \A k \in (p_read \cup written) :
           /\ k < num_pixels
           /\ (k % fast) < FULL_BLOCKS * BLOCK_SIZE
    /\ \A n \in 1 .. Len(pipe) :
           /\ pipe[n].tag[2] < FULL_BLOCKS
           /\ \A p \in Lanes :
                pipe[n].data[p] =
                    image_data[pipe[n].tag[1] * fast
                               + pipe[n].tag[2] * BLOCK_SIZE + p]

C7_Witness ==
    /\ fast % BLOCK_SIZE # 0
    /\ FrameOver
    /\ Cardinality(p_read) = slow * FULL_BLOCKS * BLOCK_SIZE
    /\ written # {}

----------------------------------------------------------------------------
\* C8: when the module starts consuming a frame every ring-store entry is
\* zero and the pipe holds nothing of an earlier frame, and every value the
\* module has written at the end of the frame is determined by that frame's
\* image alone.
C8_NoCrossFrameState ==
    /\ (m_pc = "row" /\ nread = 0) =>
           \A zr \in DOMAIN rows : \A zb \in DOMAIN rows[zr] : \A p \in Lanes :
               rows[zr][zb][p] = 0
    /\ (h_pc = "wait" /\ nsent = 0) => (pipe = << >>)
    /\ FrameOver =>
           \A k \in written :
               destination_data[k] = TopLeftCutSum(image_data, k) % UINT16

C8_Witness ==
    /\ i = 1
    /\ m_pc = "row" /\ nread = 0
    /\ Len(history) = 1
    /\ history[1].img[0] # 0
    /\ image_data # history[1].img

----------------------------------------------------------------------------
\* C9: two runs of the pipeline on the same image leave the same output array.
C9_Idempotent ==
    \A a \in 1 .. Len(history) : \A b \in 1 .. Len(history) :
        (history[a].img = history[b].img) => (history[a].out = history[b].out)

C9_Witness ==
    /\ Len(history) >= 2
    /\ history[1].img = history[2].img
    /\ history[2].out[KERNEL_HEIGHT * fast + KERNEL_WIDTH] # 0

----------------------------------------------------------------------------
ScenarioSize == 2 * BLOCK_SIZE

WindowArea == (2 * KERNEL_WIDTH + 1) * (2 * KERNEL_HEIGHT + 1)

ScenarioA ==
    /\ FrameOver
    /\ slow = ScenarioSize /\ fast = ScenarioSize
    /\ image_data = ImageOf("ones", ScenarioSize, ScenarioSize)

\* C10 (as stated): in Scenario A (32x32, all pixels 1) every pixel whose 7x7
\* window lies inside the image has windowed sum 49 in the output.
C10_AsStated ==
    ScenarioA =>
        \A r \in InteriorRows : \A x \in KERNEL_WIDTH .. (fast - KERNEL_WIDTH - 1) :
            destination_data[r * fast + x] = WindowArea

\* C10 (amended): in Scenario A every pixel whose 7x7 window lies inside the
\* image and whose column is in the one block the module sums (x < 16) has
\* windowed sum 49 in the output.
C10_ScenarioA ==
    ScenarioA =>
        \A r \in InteriorRows : \A x \in SummedSupportCols :
            destination_data[r * fast + x] = WindowArea

C10_Witness ==
    /\ ScenarioA
    /\ (KERNEL_HEIGHT * fast + KERNEL_WIDTH) \in written
    /\ destination_data[KERNEL_HEIGHT * fast + KERNEL_WIDTH] = WindowArea

----------------------------------------------------------------------------
SpotValue == PixelOf("spot", 10, 10)

\* output cells whose window contains the spot at (10, 10)
SpotCell(r, x) ==
    /\ r >= 10 - KERNEL_HEIGHT /\ r <= 10 + KERNEL_HEIGHT
    /\ x >= 10 - KERNEL_WIDTH  /\ x <= 10 + KERNEL_WIDTH

ScenarioB ==
    /\ FrameOver
    /\ slow = ScenarioSize /\ fast = ScenarioSize
    /\ image_data = ImageOf("spot", ScenarioSize, ScenarioSize)

\* C11 (as stated): in Scenario B (32x32, all 0 except 1000 at (10,10)) the
\* output is 1000 exactly at rows 7..13, columns 7..13 and 0 at every other
\* pixel whose 7x7 window lies inside the image.
C11_AsStated ==
    ScenarioB =>
        \A r \in InteriorRows : \A x \in KERNEL_WIDTH .. (fast - KERNEL_WIDTH - 1) :
            destination_data[r * fast + x] = IF SpotCell(r, x) THEN SpotValue ELSE 0

\* C11 (amended): in Scenario B the output is 1000 exactly at rows 7..13,
\* columns 7..13 and 0 at every other output pixel the module writes (rows
\* 0..28, columns 0..15); the interior pixels of columns 16..28 are not written.
C11_ScenarioB ==
    ScenarioB =>
        /\ \A k \in written :
               destination_data[k] =
                   IF SpotCell(k \div fast, k % fast) THEN SpotValue ELSE 0
        /\ \A r \in InteriorRows : \A x \in KERNEL_WIDTH .. (fast - KERNEL_WIDTH - 1) :
               ((r * fast + x) \in written) <=> (x < (FULL_BLOCKS - 1) * BLOCK_SIZE)

C11_Witness ==
    /\ ScenarioB
    /\ destination_data[7 * fast + 7] = SpotValue
    /\ destination_data[13 * fast + 13] = SpotValue
    /\ (14 * fast + 13) \in written
    /\ destination_data[14 * fast + 13] = 0

----------------------------------------------------------------------------
(* Compile-time configuration checks of plumbing.cc: a candidate pair         *)
(* (KERNEL_WIDTH, BLOCK_SIZE) goes through the two static assertions in       *)
(* source order; only a translation unit that passes both yields a program.   *)

MaxBuildWidth == 4     \* largest candidate KERNEL_WIDTH
MaxBuildBlock == 17    \* largest candidate BLOCK_SIZE
MaxStreamed == 2       \* blocks followed after a successful build

\* a & b on non-negative operands
RECURSIVE BitAnd(_, _)
BitAnd(a, b) ==
    IF a <= 0 \/ b <= 0 THEN 0
    ELSE (a % 2) * (b % 2) + 2 * BitAnd(a \div 2, b \div 2)

is_power_of_two_mut(x) == (x # 0) /\ (BitAnd(x, x + 1) = 0)

\* return x && ((x & (x - 1)) == 0)
is_power_of_two(x) == (x # 0) /\ (BitAnd(x, x - 1) = 0)

\* KERNEL_WIDTH < BLOCK_SIZE with the int converted to size_t: a negative
\* width becomes a value above every block size
kernel_width_fits(kw, bs) == kw >= 0 /\ kw < bs

PipelineOff ==
    /\ dataset = << >>
    /\ destination_data = << >>
    /\ rows = << >>
    /\ InitIdle

RefIdle ==
    /\ r_pc = "idle" /\ r_k = 0 /\ r_kw = 0 /\ r_kh = 0
    /\ r_sat = << >> /\ r_out = << >>

InitBuild ==
    /\ capacity = PIPE_DEPTH
    /\ b_pc = "assert_block_size"
    /\ b_kw \in (-1) .. MaxBuildWidth
    /\ b_bs \in 0 .. MaxBuildBlock
    /\ b_streamed = 0
    /\ E2XE_16M_FAST = 0 /\ slow = 0 /\ fast = 0
    /\ image_data = << >>
    /\ h_pc = "build"
    /\ BlitIdle /\ LanesIdle /\ ReaderIdle /\ OpenIdle /\ SelectorIdle
    /\ PipelineOff
    /\ RefIdle

\* static_assert(is_power_of_two(BLOCK_SIZE))
StaticAssertBlockSize ==
    /\ b_pc = "assert_block_size"
    /\ b_pc' = IF is_power_of_two(b_bs) THEN "assert_kernel_width" ELSE "error"
    /\ UNCHANGED <<notBld, b_kw, b_bs, b_streamed>>

\* static_assert(KERNEL_WIDTH < BLOCK_SIZE)
StaticAssertKernelWidth ==
    /\ b_pc = "assert_kernel_width"
    /\ b_pc' = IF kernel_width_fits(b_kw, b_bs) THEN "built" ELSE "error"
    /\ UNCHANGED <<notBld, b_kw, b_bs, b_streamed>>

\* the program exists: its Producer writes blocks to the pipe
BuiltProgramStreams ==
    /\ b_pc = "built"
    /\ b_streamed < MaxStreamed
    /\ b_streamed' = b_streamed + 1
    /\ UNCHANGED <<notBld, b_pc, b_kw, b_bs>>

NextBuild ==
    \/ StaticAssertBlockSize
    \/ StaticAssertKernelWidth
    \/ BuiltProgramStreams

SpecBuild == InitBuild /\ [][NextBuild]_vars

IsPowerOfTwo(n) == \E e \in 0 .. n : 2 ^ e = n

\* C12: a configuration with KERNEL_WIDTH >= BLOCK_SIZE, or with a BLOCK_SIZE
\* that is not a power of two, never gets past the static assertions: no
\* program is built from it, no block is streamed, and the build ends in error.
C12_RejectedBeforeStreaming ==
    (b_kw >= b_bs \/ ~IsPowerOfTwo(b_bs)) =>
        /\ b_pc \in {"assert_block_size", "assert_kernel_width", "error"}
        /\ b_streamed = 0

C12_Witness ==
    /\ b_pc = "error"
    /\ IsPowerOfTwo(b_bs)
    /\ b_kw >= b_bs
    /\ b_streamed = 0

----------------------------------------------------------------------------
(* Rearrangement into modules (h5read.c): read_mask builds module_mask from   *)
(* the pixel mask, blit builds modules->data from an image.  The detector     *)
(* constants of eiger2xe.h are scaled down, keeping their relations.          *)

E2XE_MOD_SLOW == 2     \* rows of one module
E2XE_MOD_FAST == 3     \* columns of one module
E2XE_GAP_SLOW == 2     \* gap rows between two modules
E2XE_GAP_FAST == 1     \* gap columns between two modules

UINT8 == 256

E2XE_16M_SLOW == 8 * E2XE_MOD_SLOW + 7 * E2XE_GAP_SLOW

Fast16M == 4 * E2XE_MOD_FAST + 3 * E2XE_GAP_FAST

E2XE_4M_SLOW == 4 * E2XE_MOD_SLOW + 3 * E2XE_GAP_SLOW

E2XE_4M_FAST == 2 * E2XE_MOD_FAST + E2XE_GAP_FAST

module_pixels == E2XE_MOD_SLOW * E2XE_MOD_FAST

\* dimensions of the dataset at hand: the two detector geometries and three others
BlitDims ==
    { [s |-> E2XE_16M_SLOW,    f |-> Fast16M],
      [s |-> E2XE_4M_SLOW,     f |-> E2XE_4M_FAST],
      [s |-> E2XE_16M_SLOW,    f |-> E2XE_4M_FAST],
      [s |-> E2XE_4M_SLOW - 1, f |-> E2XE_4M_FAST],
      [s |-> E2XE_4M_SLOW,     f |-> E2XE_4M_FAST + 1] }

\* blit: if (image.slow == E2XE_16M_SLOW) {fast = 4; slow = 8} else {fast = 2; slow = 4}
BlitGrid ==
    IF slow = E2XE_16M_SLOW
    THEN [slow |-> 8, fast |-> 4, image_fast |-> fast]
    ELSE [slow |-> 4, fast |-> 2, image_fast |-> fast]

\* read_mask: if (mask_size == E2XE_16M_SLOW * E2XE_16M_FAST) ... else ...
MaskGrid ==
    IF mask_size = E2XE_16M_SLOW * E2XE_16M_FAST
    THEN [slow |-> 8, fast |-> 4, image_fast |-> E2XE_16M_FAST]
    ELSE [slow |-> 4, fast |-> 2, image_fast |-> E2XE_4M_FAST]

\* the three nested loops (_slow, _fast, row), flattened into one counter
LoopSlow(g, k) == k \div (g.fast * E2XE_MOD_SLOW)

LoopFast(g, k) == (k \div E2XE_MOD_SLOW) % g.fast

LoopRow(k) == k % E2XE_MOD_SLOW

LoopLength(g) == g.slow * g.fast * E2XE_MOD_SLOW

blit_offset_mut(g, ms, mf, row) ==
    ms * (E2XE_MOD_SLOW + E2XE_GAP_SLOW) * g.image_fast
        + row * g.image_fast + mf * E2XE_MOD_FAST

\* offset = row0 + row * image_fast + _fast * (E2XE_MOD_FAST + E2XE_GAP_FAST)
blit_offset(g, ms, mf, row) ==
    ms * (E2XE_MOD_SLOW + E2XE_GAP_SLOW) * g.image_fast
        + row * g.image_fast + mf * (E2XE_MOD_FAST + E2XE_GAP_FAST)

\* target = (_slow * fast + _fast) * module_pixels + row * E2XE_MOD_FAST
blit_target(g, ms, mf, row) ==
    (ms * g.fast + mf) * module_pixels + row * E2XE_MOD_FAST

\* memcpy(&dst[target], &src[offset], n elements); junk stands for bytes
\* beyond the source allocation
Memcpy(dst, target, src, offset, n, junk) ==
    [t \in DOMAIN dst |->
        IF t >= target /\ t < target + n
        THEN (IF (offset + t - target) \in DOMAIN src
              THEN src[offset + t - target] ELSE junk)
        ELSE dst[t]]

MaskGarbage == {0, UINT8 - 1}

InitBlit ==
    /\ capacity = PIPE_DEPTH
    /\ \E d \in BlitDims :
         /\ slow = d.s /\ fast = d.f
         /\ mask_size = d.s * d.f
         /\ image_data = [k \in 0 .. (d.s * d.f - 1) |-> k + 1]
         /\ mask = [j \in 0 .. (d.s * d.f - 1) |-> IF j % 3 = 0 THEN 0 ELSE 1]
    /\ E2XE_16M_FAST = Fast16M
    /\ module_mask = << >> /\ modules_data = << >>
    /\ mm_log = << >> /\ md_log = << >>
    /\ bl_pc = "mask_select" /\ bl_k = 0
    /\ h_pc = "blit"
    /\ PipelineOff
    /\ RefIdle
    /\ BuildIdle /\ LanesIdle /\ ReaderIdle /\ OpenIdle /\ SelectorIdle

\* read_mask: choice of the grid and malloc of module_mask
MaskSelect ==
    /\ bl_pc = "mask_select"
    /\ \E d \in MaskGarbage :
         module_mask' =
             [t \in 0 .. (MaskGrid.fast * MaskGrid.slow * module_pixels - 1) |-> d]
    /\ bl_pc' = "mask_rows" /\ bl_k' = 0
    /\ UNCHANGED <<notBlit, mask_size, mask, modules_data, mm_log, md_log>>

\* read_mask: one memcpy of the loop nest
MaskBlitRow ==
    /\ bl_pc = "mask_rows"
    /\ LET g      == MaskGrid
           offset == blit_offset(g, LoopSlow(g, bl_k), LoopFast(g, bl_k), LoopRow(bl_k))
           target == blit_target(g, LoopSlow(g, bl_k), LoopFast(g, bl_k), LoopRow(bl_k))
       IN  /\ \E junk \in MaskGarbage :
                module_mask' = Memcpy(module_mask, target, mask, offset,
                                      E2XE_MOD_FAST, junk)
           /\ mm_log' = Append(mm_log, [target |-> target, offset |-> offset])
           /\ IF bl_k + 1 < LoopLength(g)
              THEN bl_k' = bl_k + 1 /\ bl_pc' = "mask_rows"
              ELSE bl_k' = 0 /\ bl_pc' = "blit_select"
    /\ UNCHANGED <<notBlit, mask_size, mask, modules_data, md_log>>

\* blit: choice of the grid and malloc of modules->data
BlitSelect ==
    /\ bl_pc = "blit_select"
    /\ \E d \in Garbage :
         modules_data' =
             [t \in 0 .. (BlitGrid.slow * BlitGrid.fast * module_pixels - 1) |-> d]
    /\ bl_pc' = "blit_rows" /\ bl_k' = 0
    /\ UNCHANGED <<notBlit, mask_size, mask, module_mask, mm_log, md_log>>

\* blit: one memcpy of the loop nest
BlitRow ==
    /\ bl_pc = "blit_rows"
    /\ LET g      == BlitGrid
           offset == blit_offset(g, LoopSlow(g, bl_k), LoopFast(g, bl_k), LoopRow(bl_k))
           target == blit_target(g, LoopSlow(g, bl_k), LoopFast(g, bl_k), LoopRow(bl_k))
       IN  /\ \E junk \in Garbage :
                modules_data' = Memcpy(modules_data, target, image_data, offset,
                                       E2XE_MOD_FAST, junk)
           /\ md_log' = Append(md_log, [target |-> target, offset |-> offset])
           /\ IF bl_k + 1 < LoopLength(g)
              THEN bl_k' = bl_k + 1 /\ bl_pc' = "blit_rows"
              ELSE bl_k' = 0 /\ bl_pc' = "done"
    /\ UNCHANGED <<notBlit, mask_size, mask, module_mask, mm_log>>

NextBlit ==
    \/ MaskSelect
    \/ MaskBlitRow
    \/ BlitSelect
    \/ BlitRow

SpecBlit == InitBlit /\ [][NextBlit]_vars

----------------------------------------------------------------------------
SupportedGeometry ==
    \/ slow = E2XE_16M_SLOW /\ fast = E2XE_16M_FAST
    \/ slow = E2XE_4M_SLOW  /\ fast = E2XE_4M_FAST

SupportedSize ==
    mask_size \in {E2XE_16M_SLOW * E2XE_16M_FAST, E2XE_4M_SLOW * E2XE_4M_FAST}

\* C13 (as stated): for a mask or image whose size matches neither supported
\* geometry the rearrangement fails: no module-tiled mask and no module-tiled
\* image data is ever produced.
C13_AsStated ==
    (bl_pc # "idle" /\ ~SupportedSize) =>
        /\ module_mask = << >> /\ mm_log = << >>
        /\ modules_data = << >> /\ md_log = << >>

\* module grid (slow, fast) of a supported geometry
GridSlow == IF slow = E2XE_16M_SLOW THEN 8 ELSE 4

GridFast == IF slow = E2XE_16M_SLOW THEN 4 ELSE 2

SourceIndex(ms, mf, r, c) ==
    (ms * (E2XE_MOD_SLOW + E2XE_GAP_SLOW) + r) * fast
        + mf * (E2XE_MOD_FAST + E2XE_GAP_FAST) + c

TargetIndex(ms, mf, r, c) ==
    (ms * GridFast + mf) * E2XE_MOD_SLOW * E2XE_MOD_FAST + r * E2XE_MOD_FAST + c

\* a flat image index that lies in a gap row or a gap column
GapIndex(k) ==
    \/ ((k \div fast) % (E2XE_MOD_SLOW + E2XE_GAP_SLOW)) >= E2XE_MOD_SLOW
    \/ ((k % fast) % (E2XE_MOD_FAST + E2XE_GAP_FAST)) >= E2XE_MOD_FAST

Cols == 0 .. (E2XE_MOD_FAST - 1)

\* C14: for each supported geometry, blit copies source pixel
\* (ms*(MOD_SLOW+GAP_SLOW)+r)*image_fast + mf*(MOD_FAST+GAP_FAST) + c to target
\* (ms*grid_fast+mf)*MOD_SLOW*MOD_FAST + r*MOD_FAST + c; every copied source
\* index lies inside the image and outside the gaps, and at the end every
\* target index has been written exactly once.
C14_BlitMapping ==
    SupportedGeometry =>
        /\ \A n \in DOMAIN md_log : \A c \in Cols :
               /\ md_log[n].offset + c \in 0 .. (slow * fast - 1)
               /\ ~GapIndex(md_log[n].offset + c)
               /\ \E ms \in 0 .. (GridSlow - 1) : \E mf \in 0 .. (GridFast - 1) :
                  \E r \in 0 .. (E2XE_MOD_SLOW - 1) :
                      /\ md_log[n].offset + c = SourceIndex(ms, mf, r, c)
                      /\ md_log[n].target + c = TargetIndex(ms, mf, r, c)
        /\ (bl_pc = "done") =>
               /\ DOMAIN modules_data = 0 .. (GridSlow * GridFast * module_pixels - 1)
               /\ \A t \in DOMAIN modules_data :
                      Cardinality({n \in DOMAIN md_log :
                                      t - md_log[n].target \in Cols}) = 1
               /\ \A ms \in 0 .. (GridSlow - 1) : \A mf \in 0 .. (GridFast - 1) :
                  \A r \in 0 .. (E2XE_MOD_SLOW - 1) : \A c \in Cols :
                      modules_data[TargetIndex(ms, mf, r, c)]
                          = image_data[SourceIndex(ms, mf, r, c)]

C14_Witness ==
    /\ bl_pc = "done"
    /\ slow = E2XE_16M_SLOW /\ fast = E2XE_16M_FAST
    /\ Len(md_log) = 8 * 4 * E2XE_MOD_SLOW
    /\ modules_data[TargetIndex(7, 3, E2XE_MOD_SLOW - 1, E2XE_MOD_FAST - 1)]
         = image_data[slow * fast - 1]

\* C15 (as stated): read_mask and blit make the same copies (same targets from
\* the same source offsets, in the same order) for a mask and an image of the
\* same dimensions, whatever these dimensions are.
C15_AsStated ==
    (bl_pc = "done") => (mm_log = md_log)

----------------------------------------------------------------------------
(* The pipeline run on a dataset whose geometry is not the compiled-in one:   *)
(* slow and fast come from the reader, FULL_BLOCKS from E2XE_16M_FAST.        *)

InitGeom ==
    /\ capacity = PIPE_DEPTH
    /\ AuxIdle
    /\ \E g \in Geometries : \E h \in Geometries :
         /\ g # h
         /\ E2XE_16M_FAST = g.f
         /\ slow = h.s
         /\ fast = h.f
    /\ dataset = << >>
    /\ image_data = [k \in 0 .. (num_pixels - 1) |-> 0]
    /\ \E d \in Garbage :
         /\ destination_data = [k \in 0 .. (num_pixels - 1) |-> d]
         /\ rows = [zr \in 0 .. (FULL_KERNEL_HEIGHT - 1) |->
                     [zb \in 0 .. (FULL_BLOCKS - 1) |-> [p \in Lanes |-> d]]]
    /\ h_pc = "read"
    /\ InitIdle
    /\ RefIdle

SpecGeom == InitGeom /\ [][Next]_vars

\* C16 (as stated): producer and engine use floor(fast / BLOCK_SIZE) blocks per
\* row, fast being the fast dimension of the image being processed: no block
\* with a higher index is ever sent, and a finished frame has sent and
\* received slow * floor(fast / BLOCK_SIZE) blocks.
C16_AsStated ==
    /\ \A n \in 1 .. Len(pipe) : pipe[n].tag[2] < fast \div BLOCK_SIZE
    /\ FrameOver =>
           /\ nsent = slow * (fast \div BLOCK_SIZE)
           /\ nread = slow * (fast \div BLOCK_SIZE)

----------------------------------------------------------------------------
\* C17: a producer step changes only the pipe contents and the producer's own
\* position: it appends one block to the pipe and leaves the image, the ring
\* store, the scratch buffer, the output array, the host copy and the
\* positions of the module and of the host unchanged.
C17_ProducerFrame ==
    [][(nsent' = nsent + 1) =>
          /\ Len(pipe') = Len(pipe) + 1
          /\ \A n \in 1 .. Len(pipe) : pipe'[n] = pipe[n]
          /\ UNCHANGED <<cfgVars, image_data, rows, interim_pixels,
                         destination_data, host_sum_data, m_pc, m_y, m_block,
                         h_pc, i>>]_vars

C17_Witness ==
    /\ p_pc = "run"
    /\ nsent > FULL_BLOCKS
    /\ Len(pipe) > 0
    /\ written # {}
    /\ \E k \in DOMAIN image_data : image_data[k] # 0

----------------------------------------------------------------------------
(* Two-lane pixel pipeline (second program of kernel.cc): two producers send  *)
(* the two halves of the image pixel by pixel into two pipes, two modules     *)
(* sum what they read; the host compares result[0] + result[1] with its sum.  *)

MaxLanePixels == 12    \* largest num_pixels of the two-lane runs

LaneIds == {0, 1}

\* first and one-past-last pixel index of producer k
LaneFirst(k) == IF k = 0 THEN 0 ELSE num_pixels \div 2

LaneLast(k) == IF k = 0 THEN num_pixels \div 2 ELSE num_pixels

\* number of pixels Module<k> reads: i < num_pixels / 2
LaneReads == num_pixels \div 2

RECURSIVE HostSum(_, _)
HostSum(img, px) == IF px = 0 THEN 0 ELSE img[px - 1] + HostSum(img, px - 1)

InitLanes ==
    /\ capacity = PIPE_DEPTH
    /\ slow = 1
    /\ fast \in 1 .. MaxLanePixels
    /\ E2XE_16M_FAST = fast
    /\ \E pat \in {"ones", "high"} : image_data = ImageOf(pat, slow, fast)
    /\ l_pc = "read" /\ l_i = 0 /\ host_sum = 0
    /\ lane_pipe = [k \in LaneIds |-> << >>]
    /\ lp_pc = [k \in LaneIds |-> "idle"]
    /\ lp_i = [k \in LaneIds |-> 0]
    /\ lm_pc = [k \in LaneIds |-> "idle"]
    /\ lm_i = [k \in LaneIds |-> 0]
    /\ sum_pixels = [k \in LaneIds |-> 0]
    /\ \E g \in Garbage : result = [k \in LaneIds |-> g]
    /\ h_pc = "lanes"
    /\ PipelineOff
    /\ RefIdle
    /\ BuildIdle /\ BlitIdle /\ ReaderIdle /\ OpenIdle /\ SelectorIdle

\* reader.get_image_into(i, image_data); host_sum; submission of the four kernels
LaneSubmit ==
    /\ l_pc = "read"
    /\ l_i < NumImages
    /\ host_sum' = HostSum(image_data, num_pixels)
    /\ lp_i' = [k \in LaneIds |-> LaneFirst(k)]
    /\ lp_pc' = [k \in LaneIds |-> IF LaneFirst(k) < LaneLast(k) THEN "run" ELSE "done"]
    /\ lm_i' = [k \in LaneIds |-> 0]
    /\ sum_pixels' = [k \in LaneIds |-> 0]
    /\ lm_pc' = [k \in LaneIds |-> IF 0 < LaneReads THEN "run" ELSE "store"]
    /\ l_pc' = "wait"
    /\ UNCHANGED <<notLane, l_i, lane_pipe, result>>

\* ProducerPipeToModule<k>::write(image_data[i]); ++i
LaneProducerWrite(k) ==
    /\ lp_pc[k] = "run"
    /\ Len(lane_pipe[k]) < PIPE_DEPTH
    /\ lane_pipe' = [lane_pipe EXCEPT ![k] = Append(@, image_data[lp_i[k]])]
    /\ lp_i' = [lp_i EXCEPT ![k] = @ + 1]
    /\ lp_pc' = [lp_pc EXCEPT ![k] = IF lp_i[k] + 1 < LaneLast(k) THEN "run" ELSE "done"]
    /\ UNCHANGED <<notLane, l_pc, l_i, host_sum, lm_pc, lm_i, sum_pixels, result>>

\* sum_pixels += ProducerPipeToModule<k>::read(); ++i
LaneModuleRead(k) ==
    /\ lm_pc[k] = "run"
    /\ Len(lane_pipe[k]) > 0
    /\ sum_pixels' = [sum_pixels EXCEPT ![k] = @ + Head(lane_pipe[k])]
    /\ lane_pipe' = [lane_pipe EXCEPT ![k] = Tail(@)]
    /\ lm_i' = [lm_i EXCEPT ![k] = @ + 1]
    /\ lm_pc' = [lm_pc EXCEPT ![k] = IF lm_i[k] + 1 < LaneReads THEN "run" ELSE "store"]
    /\ UNCHANGED <<notLane, l_pc, l_i, host_sum, lp_pc, lp_i, result>>

\* result[k] = sum_pixels
LaneModuleStore(k) ==
    /\ lm_pc[k] = "store"
    /\ result' = [result EXCEPT ![k] = sum_pixels[k]]
    /\ lm_pc' = [lm_pc EXCEPT ![k] = "done"]
    /\ UNCHANGED <<notLane, l_pc, l_i, host_sum, lane_pipe, lp_pc, lp_i, lm_i,
                   sum_pixels>>

\* Q.wait(): all four kernels have finished
LaneWait ==
    /\ l_pc = "wait"
    /\ \A k \in LaneIds : lp_pc[k] = "done" /\ lm_pc[k] = "done"
    /\ l_pc' = "check"
    /\ UNCHANGED <<notLane, l_i, host_sum, lane_pipe, lp_pc, lp_i, lm_pc, lm_i,
                   sum_pixels, result>>

\* device_sum = result[0] + result[1] is printed next to host_sum; next image
LaneCheck ==
    /\ l_pc = "check"
    /\ l_i' = l_i + 1
    /\ l_pc' = IF l_i + 1 < NumImages THEN "read" ELSE "exit"
    /\ UNCHANGED <<notLane, host_sum, lane_pipe, lp_pc, lp_i, lm_pc, lm_i,
                   sum_pixels, result>>

NextLanes ==
    \/ LaneSubmit
    \/ \E k \in LaneIds : LaneProducerWrite(k)
    \/ \E k \in LaneIds : LaneModuleRead(k)
    \/ \E k \in LaneIds : LaneModuleStore(k)
    \/ LaneWait
    \/ LaneCheck

SpecLanes == InitLanes /\ [][NextLanes]_vars

\* C18 (as stated): whenever the four kernels of a frame have finished,
\* result[0] + result[1] equals the host's sum of all num_pixels pixels, for
\* even and odd pixel counts and under every interleaving.
C18_AsStated ==
    (l_pc = "check") => (result[0] + result[1] = host_sum)

----------------------------------------------------------------------------
(* h5read_get_image(obj, n) of h5read.c on a handle whose data files are      *)
(* known: range check, search of the data file holding frame n, dataset read. *)

MaxDataFiles == 2      \* largest obj->data_file_count
MaxFileFrames == 2     \* largest number of frames in one data file

RECURSIVE SumFrames(_, _)
SumFrames(fs, j) == IF j = 0 THEN 0 ELSE fs[j] + SumFrames(fs, j - 1)

\* data files as the virtual dataset lists them: in frame order, in reverse
\* order, or with a hole of one frame in front of every file but the first
DataFileLayouts ==
    UNION { UNION { { [j \in 1 .. c |-> [frames |-> fs[j],
                                         offset |-> SumFrames(fs, j - 1)]],
                      [j \in 1 .. c |-> [frames |-> fs[c + 1 - j],
                                         offset |-> SumFrames(fs, c - j)]],
                      [j \in 1 .. c |-> [frames |-> fs[j],
                                         offset |-> SumFrames(fs, j - 1) + j - 1]] }
                    : fs \in [1 .. c -> 1 .. MaxFileFrames] }
            : c \in 1 .. MaxDataFiles }

\* file->frames += data_files[j].frames over all data files
TotalFrames(files) ==
    SumFrames([j \in DOMAIN files |-> files[j].frames], Len(files))

image_out_of_range_mut(n, total) == n > total

\* if (n >= obj->frames)
image_out_of_range(n, total) == n >= total

frame_in_file_mut(n, file) == n - file.offset < file.frames

\* (n - offset) < frames on size_t operands: when offset > n the difference
\* wraps to 2^64 - (offset - n), which is above every frame count
frame_in_file(n, file) == n >= file.offset /\ n - file.offset < file.frames

InitReader ==
    /\ capacity = PIPE_DEPTH
    /\ \E files \in DataFileLayouts :
         /\ data_files = files
         /\ frames = TotalFrames(files)
    /\ rd_n \in 0 .. (MaxDataFiles * MaxFileFrames + 1)
    /\ rd_pc = "call" /\ data_file = 0
    /\ rd_reads = << >> /\ rd_result = << >>
    /\ E2XE_16M_FAST = 1 /\ slow = 1 /\ fast = 1
    /\ image_data = << >>
    /\ h_pc = "reader"
    /\ PipelineOff
    /\ RefIdle
    /\ BuildIdle /\ BlitIdle /\ LanesIdle /\ OpenIdle /\ SelectorIdle

\* if (n >= obj->frames) { fprintf(stderr, ...); exit(1); }
GetImageCheck ==
    /\ rd_pc = "call"
    /\ rd_pc' = IF image_out_of_range(rd_n, frames) THEN "exit" ELSE "find"
    /\ data_file' = 0
    /\ UNCHANGED <<notRd, rd_n, data_files, frames, rd_reads, rd_result>>

\* one iteration of the search loop: break on the file holding frame n
GetImageFindStep ==
    /\ rd_pc = "find"
    /\ data_file < Len(data_files)
    /\ IF frame_in_file(rd_n, data_files[data_file + 1])
       THEN rd_pc' = "read" /\ data_file' = data_file
       ELSE rd_pc' = "find" /\ data_file' = data_file + 1
    /\ UNCHANGED <<notRd, rd_n, data_files, frames, rd_reads, rd_result>>

\* if (data_file == obj->data_file_count) { fprintf(stderr, ...); exit(1); }
GetImageNotFound ==
    /\ rd_pc = "find"
    /\ data_file = Len(data_files)
    /\ rd_pc' = "exit"
    /\ UNCHANGED <<notRd, rd_n, data_files, frames, data_file, rd_reads, rd_result>>

\* hyperslab selection, H5Dread into a fresh buffer; exit(1) when it fails
GetImageRead ==
    /\ rd_pc = "read"
    /\ LET frame == [file  |-> data_file,
                     index |-> rd_n - data_files[data_file + 1].offset]
       IN  /\ rd_reads' = Append(rd_reads, frame)
           /\ \/ rd_pc' = "returned" /\ rd_result' = <<frame>>
              \/ rd_pc' = "exit" /\ rd_result' = rd_result
    /\ UNCHANGED <<notRd, rd_n, data_files, frames, data_file>>

NextReader ==
    \/ GetImageCheck
    \/ GetImageFindStep
    \/ GetImageNotFound
    \/ GetImageRead

SpecReader == InitReader /\ [][NextReader]_vars

\* C19: a request for image n >= obj->frames only ever ends in the error
\* exit: no data file is searched, no dataset read is made and no buffer is
\* returned.
C19_OutOfRangeFails ==
    (rd_pc # "idle" /\ rd_n >= frames) =>
        /\ rd_pc \in {"call", "exit"}
        /\ rd_reads = << >>
        /\ rd_result = << >>

C19_Witness ==
    /\ rd_pc = "exit"
    /\ rd_n = frames
    /\ Len(data_files) = MaxDataFiles
    /\ \E j \in DOMAIN data_files : frame_in_file(rd_n, data_files[j])
    /\ rd_reads = << >>

----------------------------------------------------------------------------
\* sum in the element type of the horizontal sums of block b over rows y0 .. y1
RECURSIVE SumOfSums(_, _, _, _)
SumOfSums(b, y0, y1, p) ==
    IF y0 > y1 THEN 0
    ELSE Add16(computed[<<y1, b>>].sum[p], SumOfSums(b, y0, y1 - 1, p))

\* C20: the kernel_sum computed at row y for block b (new_row - oldest_row)
\* equals the sum, in the uint16_t element type, of block b's horizontal
\* sums over the rows y-FULL_KERNEL_HEIGHT+1 .. y, and over rows 0 .. y when
\* y < FULL_KERNEL_HEIGHT-1.
C20_RingDifference ==
    \A k \in DOMAIN computed :
        (k[1] >= m_y - 1) =>
            \A p \in Lanes :
                computed[k].kernel_sum[p] =
                    SumOfSums(k[2], Max(0, k[1] - FULL_KERNEL_HEIGHT + 1), k[1], p)

C20_Witness ==
    /\ <<FULL_KERNEL_HEIGHT + 1, 0>> \in DOMAIN computed
    /\ <<1, 0>> \in DOMAIN computed
    /\ computed[<<FULL_KERNEL_HEIGHT + 1, 0>>].sum[KERNEL_WIDTH] > 0
    /\ computed[<<1, 0>>].kernel_sum[KERNEL_WIDTH]
         = 2 * computed[<<1, 0>>].sum[KERNEL_WIDTH]
    /\ computed[<<FULL_KERNEL_HEIGHT + 1, 0>>].kernel_sum[KERNEL_WIDTH]
         = FULL_KERNEL_HEIGHT * computed[<<FULL_KERNEL_HEIGHT + 1, 0>>].sum[KERNEL_WIDTH]

----------------------------------------------------------------------------
\* rows of this frame the module has processed for block b
RowsDone(b) == {k[1] : k \in {q \in DOMAIN computed : q[2] = b}}

\* the most recent processed row y' <= y with y' mod FULL_KERNEL_HEIGHT = s, or -1
LastRowInSlot(s, y) ==
    IF y < s THEN -1 ELSE y - ((y - s) % FULL_KERNEL_HEIGHT)

\* cumulative sum, in the element type, of block b's horizontal sums over rows 0 .. y
Cumulative(b, y) == [p \in Lanes |-> SumOfSums(b, 0, y, p)]

\* C21: after row y has been processed for block b, ring slot y mod
\* FULL_KERNEL_HEIGHT of block b holds the cumulative sum (uint16_t) of block
\* b's horizontal sums over rows 0..y and every other slot s the cumulative sum
\* up to the most recent row y' < y with y' mod FULL_KERNEL_HEIGHT = s, zero
\* if there is none; the slot read as oldest_row at row y >= FULL_KERNEL_HEIGHT
\* holds the cumulative sum recorded at row y - FULL_KERNEL_HEIGHT.  The ring
\* store changes by module steps only, so it is examined in the states where
\* the module has caught up with the producer.
C21_RingInvariant ==
    (m_pc \in {"row", "blk", "done"} /\ nsent = nread) =>
        /\ \A b \in 0 .. (FULL_BLOCKS - 1) :
               LET y == IF RowsDone(b) = {} THEN -1
                        ELSE CHOOSE r \in RowsDone(b) : \A q \in RowsDone(b) : q <= r
               IN  \A sl \in 0 .. (FULL_KERNEL_HEIGHT - 1) :
                       rows[sl][b] =
                           IF LastRowInSlot(sl, y) < 0 THEN ZeroBlock
                           ELSE Cumulative(b, LastRowInSlot(sl, y))
        /\ (m_pc = "blk" /\ m_y >= FULL_KERNEL_HEIGHT) =>
               rows[swap_row_store(m_y)][m_block]
                   = Cumulative(m_block, m_y - FULL_KERNEL_HEIGHT)

C21_Witness ==
    /\ m_pc = "blk" /\ nsent = nread
    /\ m_y = 2 * FULL_KERNEL_HEIGHT
    /\ rows[swap_row_store(m_y)][m_block] = Cumulative(m_block, FULL_KERNEL_HEIGHT)
    /\ rows[swap_row_store(m_y)][m_block][KERNEL_WIDTH] > 0
    /\ rows[1][m_block] # rows[0][m_block]

----------------------------------------------------------------------------
\* what the scratch buffer should hold when block b of row y is summed
ExpectedBuffer(y, b) ==
    [k \in 0 .. (BUFFER_SIZE - 1) |->
        IF b * BLOCK_SIZE + k - KERNEL_WIDTH < 0 THEN 0
        ELSE image_data[y * fast + b * BLOCK_SIZE + k - KERNEL_WIDTH]]

\* C22: whenever the horizontal sum of block b of row y is computed, the
\* scratch buffer holds the last KERNEL_WIDTH pixels of block b-1 of row y
\* (zeros when b = 0), then block b, then block b+1 of row y of the current
\* frame's image, and nothing else.
C22_ScratchBuffer ==
    (summed # << >>) =>
        /\ summed[1].y \in 0 .. (slow - 1)
        /\ summed[1].block \in 0 .. (FULL_BLOCKS - 2)
        /\ summed[1].buffer = ExpectedBuffer(summed[1].y, summed[1].block)

C22_Witness ==
    /\ summed # << >>
    /\ summed[1].y = KERNEL_HEIGHT + 2 /\ summed[1].block = 1
    /\ summed[1].buffer[0] = image_data[summed[1].y * fast + BLOCK_SIZE - KERNEL_WIDTH]
    /\ summed[1].buffer[0] # summed[1].buffer[1]
    /\ summed[1].buffer[BUFFER_SIZE - 1] # image_data[(summed[1].y - 1) * fast + 3 * BLOCK_SIZE - 1]
    /\ i = 1 /\ image_data # history[1].img

----------------------------------------------------------------------------
\* C23 (as stated): at every row y the module processes, the previous-row
\* index of plumbing.cc, (y-1) mod FULL_KERNEL_HEIGHT on the size_t counter,
\* equals that of kernel.cc, (y+FULL_KERNEL_HEIGHT-1) mod FULL_KERNEL_HEIGHT.
C23_AsStated ==
    (m_pc = "blk") => (prev_row_store(m_y) = prev_row_index(m_y))

----------------------------------------------------------------------------
\* C24: fed the same block sequence of an image of the compiled-in
\* dimensions, the Module kernel of plumbing.cc and run_module of kernel.cc
\* have the same ring store after every step, and every iteration writes the
\* same values to the same output cells in both, or writes in neither.
C24_VariantsEquivalent ==
    /\ (m_pc \in {"row", "blk", "done"}) => (k_rows = rows)
    /\ (summed # << >>) =>
           k_out = IF summed[1].y >= KERNEL_HEIGHT
                   THEN <<[offset |-> dest_offset(summed[1].y, summed[1].block),
                           values |-> computed[<<summed[1].y, summed[1].block>>].kernel_sum]>>
                   ELSE << >>

C24_Witness ==
    /\ summed # << >>
    /\ summed[1].y = KERNEL_HEIGHT + 1 /\ summed[1].block = 0
    /\ k_rows = rows
    /\ rows[0][0][KERNEL_WIDTH] > 0
    /\ k_out # << >>
    /\ k_out[1].values[KERNEL_WIDTH] = destination_data[fast + KERNEL_WIDTH]
    /\ prev_row_store(0) # prev_row_index(0)

----------------------------------------------------------------------------
(* The pipeline with a pipe of any capacity *)

MaxDepth == 6          \* largest pipe capacity tried

InitDepth ==
    /\ InitProgram
    /\ capacity \in 1 .. MaxDepth

SpecDepth == InitDepth /\ [][Next]_vars

\* the output cells the module writes in a frame: all rows but the last
\* KERNEL_HEIGHT, all columns of the blocks it sums
EngineCells ==
    {r * fast + x : r \in 0 .. (slow - KERNEL_HEIGHT - 1),
                    x \in 0 .. ((FULL_BLOCKS - 1) * BLOCK_SIZE - 1)}

\* C25: whatever the interleaving of producer and module steps, and whatever
\* the capacity of the pipe (1 or more), the output array at the end of a
\* frame is one function of the frame's image and of the array as it was
\* before the frame; the pipe never holds more than its capacity.
C25_ScheduleIndependent ==
    /\ Len(pipe) <= capacity
    /\ FrameOver =>
           \A k \in DOMAIN destination_data :
               destination_data[k] =
                   IF k \in EngineCells
                   THEN TopLeftCutSum(image_data, k) % UINT16
                   ELSE pre_frame[k]

C25_Witness ==
    /\ FrameOver
    /\ capacity = 1
    /\ i = 1
    /\ image_data # history[1].img
    /\ destination_data[KERNEL_HEIGHT * fast + KERNEL_WIDTH] # 0
    /\ destination_data # pre_frame

----------------------------------------------------------------------------
\* the smallest element of a non-empty set of indices
MinOf(S) == CHOOSE n \in S : \A q \in S : n <= q

\* output row and block of a destination index
OutBlockOf(k) == <<k \div fast, (k % fast) \div BLOCK_SIZE>>

\* row-major order on (row, block) pairs
BlockBefore(a, b) == (a[1] < b[1]) \/ (a[1] = b[1] /\ a[2] < b[2])

\* C26: a step that writes output cells happens at an input row y >=
\* KERNEL_HEIGHT; the cells are those of output row r = y - KERNEL_HEIGHT
\* and block b, and the block the module received last before writing is
\* block b+1 of input row r + KERNEL_HEIGHT; every block written earlier in
\* the frame comes before (r, b) in row-major order. Both engine variants
\* write at the same step.
C26_WriteOrder ==
    [][(written' \ written # {}) =>
          LET new == written' \ written
              rb  == OutBlockOf(MinOf(new))
          IN  /\ m_y >= KERNEL_HEIGHT
              /\ new = {rb[1] * fast + rb[2] * BLOCK_SIZE + p : p \in Lanes}
              /\ lastRead' = <<rb[1] + KERNEL_HEIGHT, rb[2] + 1>>
              /\ nread' = (rb[1] + KERNEL_HEIGHT) * FULL_BLOCKS + rb[2] + 2
              /\ \A a \in written : BlockBefore(OutBlockOf(a), rb)
              /\ k_out' # << >>
              /\ k_out'[1].offset = MinOf(new)]_vars

C26_Witness ==
    /\ FULL_BLOCKS = 3
    /\ lastRead = <<KERNEL_HEIGHT + 1, 2>>
    /\ nread = (KERNEL_HEIGHT + 1) * FULL_BLOCKS + 3
    /\ (fast + BLOCK_SIZE) \in written
    /\ (fast + BLOCK_SIZE - 1) \in written
    /\ (2 * fast) \notin written

----------------------------------------------------------------------------
\* C27: in a frame the module writes exactly the cells r*fast + x with
\* 0 <= r < slow - KERNEL_HEIGHT and 0 <= x < (FULL_BLOCKS-1)*BLOCK_SIZE, all
\* of them inside the output array, none of them twice; every cell it has
\* not written holds the value it had before the frame.
C27_FrameEffect ==
    (h_pc = "wait") =>
        /\ EngineCells \subseteq DOMAIN destination_data
        /\ written \subseteq EngineCells
        /\ rewritten = {}
        /\ \A k \in DOMAIN destination_data :
               (k \notin written) => (destination_data[k] = pre_frame[k])
        /\ FrameOver => (written = EngineCells)

C27_Witness ==
    /\ FrameOver
    /\ i = 1
    /\ written = EngineCells
    /\ BLOCK_REMAINDER > 0
    /\ pre_frame[0] # destination_data[0]
    /\ pre_frame[InnerBlocks * BLOCK_SIZE] # 0
    /\ destination_data[InnerBlocks * BLOCK_SIZE] = pre_frame[InnerBlocks * BLOCK_SIZE]

----------------------------------------------------------------------------
\* the cells of the block the module wrote in its latest iteration
LatestCells ==
    IF summed # << >> /\ summed[1].y >= KERNEL_HEIGHT
    THEN {dest_offset(summed[1].y, summed[1].block) + p : p \in Lanes}
    ELSE {}

\* C28: every value the module holds or writes is a 16-bit unsigned number,
\* and every pixel it writes is the sum over the pixel's window (cut at the
\* top and left image edges) reduced modulo 2^16: the exact sum when that is
\* below 2^16, the wrapped sum otherwise.
C28_Uint16Wrap ==
    (h_pc = "wait") =>
        /\ \A sl \in DOMAIN rows : \A b \in DOMAIN rows[sl] : \A p \in Lanes :
               rows[sl][b][p] \in 0 .. (UINT16 - 1)
        /\ \A k \in LatestCells :
               LET t == TopLeftCutSum(image_data, k)
               IN  /\ destination_data[k] \in 0 .. (UINT16 - 1)
                   /\ (t < UINT16) => (destination_data[k] = t)
                   /\ (t >= UINT16) => (destination_data[k] = t % UINT16)

C28_Witness ==
    /\ h_pc = "wait"
    /\ LatestCells # {}
    /\ \E k \in LatestCells :
           /\ TopLeftCutSum(image_data, k) >= 2 * UINT16
           /\ destination_data[k] = TopLeftCutSum(image_data, k) % UINT16
           /\ destination_data[k] # 0
    /\ i = 1
    /\ \E k \in LatestCells : TopLeftCutSum(history[1].img, k) < UINT16

----------------------------------------------------------------------------
\* C29: at the end of a frame every written pixel (r, x) in the first
\* KERNEL_HEIGHT rows or the first KERNEL_WIDTH columns whose window sum is
\* below 2^16 holds the brute-force sum over its window clamped to the image.
C29_EdgeClamped ==
    FrameOver =>
        \A k \in written :
            ((k \div fast < KERNEL_HEIGHT) \/ (k % fast < KERNEL_WIDTH)) =>
                LET bf == BruteForceWindowSum(image_data, slow, fast, KERNEL_WIDTH,
                                              KERNEL_HEIGHT, k \div fast, k % fast)
                IN  (bf < UINT16) => (destination_data[k] = bf)

C29_Witness ==
    /\ FrameOver
    /\ 0 \in written
    /\ (KERNEL_HEIGHT + 1) * fast \in written
    /\ destination_data[0] = (KERNEL_WIDTH + 1) * (KERNEL_HEIGHT + 1)
    /\ destination_data[(KERNEL_HEIGHT + 1) * fast] = (KERNEL_WIDTH + 1) * FULL_KERNEL_HEIGHT
    /\ destination_data[KERNEL_WIDTH - 1] =
           BruteForceWindowSum(image_data, slow, fast, KERNEL_WIDTH, KERNEL_HEIGHT,
                               0, KERNEL_WIDTH - 1)
    /\ i = 1

----------------------------------------------------------------------------
\* C30 (as stated): whenever the four kernels of a frame of the two-lane
\* pipeline have finished, both lane pipes are empty, for even and odd pixel
\* counts.
C30_AsStated ==
    (l_pc = "check") => (\A k \in LaneIds : lane_pipe[k] = << >>)

----------------------------------------------------------------------------
(* h5read_open(master_filename) of h5read.c: the master file is opened, its   *)
(* list of data files unpacked, every data file and dataset opened and its    *)
(* frames counted, the mask read and the image dimensions taken.              *)

\* one data file of the virtual dataset: can the file and its dataset be
\* opened, and how many frames it holds
OpenDataFiles ==
    [file_ok : BOOLEAN, dset_ok : BOOLEAN, frames : 1 .. MaxFileFrames]

\* what is on disk: is the master file readable (H5Fopen in h5read_open), can
\* unpack_vds open it and its /entry/data/data, which data files it lists, is
\* the pixel mask readable, has the data 2-byte elements and three dimensions
OpenInputs ==
    UNION { [master_ok : BOOLEAN, vds_ok : BOOLEAN,
             data : [1 .. c -> OpenDataFiles],
             mask_ok : BOOLEAN, dims_ok : BOOLEAN]
            : c \in 0 .. MaxDataFiles }

InitOpen ==
    /\ capacity = PIPE_DEPTH
    /\ o_files \in OpenInputs
    /\ o_pc = "call" /\ o_j = 0 /\ o_frames = 0
    /\ o_handle = << >> /\ o_result = << >>
    /\ E2XE_16M_FAST = 1 /\ slow = 1 /\ fast = 1
    /\ image_data = << >>
    /\ h_pc = "open"
    /\ PipelineOff
    /\ RefIdle
    /\ BuildIdle /\ BlitIdle /\ LanesIdle /\ ReaderIdle /\ SelectorIdle

\* master_file = H5Fopen(...); if (master_file < 0) return NULL; calloc handle
OpenMasterFile ==
    /\ o_pc = "call"
    /\ IF o_files.master_ok
       THEN /\ o_handle' = <<[data_file_count |-> 0, populated |-> FALSE]>>
            /\ o_pc' = "unpack"
            /\ o_result' = o_result
       ELSE /\ o_result' = <<"NULL">>
            /\ o_pc' = "returned"
            /\ o_handle' = o_handle
    /\ UNCHANGED <<notOpen, o_files, o_j, o_frames>>

\* file->data_file_count = unpack_vds(...); if (< 0) { close; free; return NULL; }
OpenUnpackVds ==
    /\ o_pc = "unpack"
    /\ IF o_files.vds_ok
       THEN /\ o_handle' = <<[data_file_count |-> Len(o_files.data),
                              populated |-> FALSE]>>
            /\ o_pc' = "files"
            /\ o_result' = o_result
       ELSE /\ o_handle' = << >>
            /\ o_result' = <<"NULL">>
            /\ o_pc' = "returned"
    /\ o_j' = 0
    /\ o_frames' = 0
    /\ UNCHANGED <<notOpen, o_files>>

\* one iteration of the loop over the data files: open file and dataset, or
\* exit(1); file->frames += data_files[j].frames
OpenDataFile ==
    /\ o_pc = "files"
    /\ o_j < o_handle[1].data_file_count
    /\ IF o_files.data[o_j + 1].file_ok /\ o_files.data[o_j + 1].dset_ok
       THEN /\ o_frames' = o_frames + o_files.data[o_j + 1].frames
            /\ o_j' = o_j + 1
            /\ o_pc' = "files"
       ELSE /\ o_pc' = "exit"
            /\ UNCHANGED <<o_j, o_frames>>
    /\ UNCHANGED <<notOpen, o_files, o_handle, o_result>>

\* read_mask(): H5Dopen(master, mask_path) on the global master, which no
\* statement assigns and which is not the file opened above; what the library
\* answers for that identifier is outside the sources, so both answers are
\* followed: failure and exit(1), or the mask of a readable master file
OpenReadMask ==
    /\ o_pc = "files"
    /\ o_j = o_handle[1].data_file_count
    /\ \/ o_pc' = "exit"
       \/ o_files.mask_ok /\ o_pc' = "setup"
    /\ UNCHANGED <<notOpen, o_files, o_j, o_frames, o_handle, o_result>>

\* setup_data(file): exit(1) unless 2-byte elements in three dimensions, then
\* obj->slow and obj->fast are set; with no data file data_files[0] is read
\* beyond the empty allocation and either outcome can follow. return NULL.
OpenSetupData ==
    /\ o_pc = "setup"
    /\ \/ /\ o_files.dims_ok \/ o_handle[1].data_file_count = 0
          /\ o_handle' = <<[o_handle[1] EXCEPT !.populated = TRUE]>>
          /\ o_result' = <<"NULL">>
          /\ o_pc' = "returned"
       \/ /\ ~o_files.dims_ok \/ o_handle[1].data_file_count = 0
          /\ o_pc' = "exit"
          /\ UNCHANGED <<o_handle, o_result>>
    /\ UNCHANGED <<notOpen, o_files, o_j, o_frames>>

NextOpen ==
    \/ OpenMasterFile
    \/ OpenUnpackVds
    \/ OpenDataFile
    \/ OpenReadMask
    \/ OpenSetupData

SpecOpen == InitOpen /\ [][NextOpen]_vars

\* everything h5read_open reads is there and readable
AllReadable(f) ==
    /\ f.master_ok /\ f.vds_ok /\ f.mask_ok /\ f.dims_ok
    /\ Len(f.data) >= 1
    /\ \A j \in DOMAIN f.data : f.data[j].file_ok /\ f.data[j].dset_ok

\* C31 (as stated): h5read_open returns NULL only when opening the master
\* file or unpacking its data-file list fails, and when the master file, all
\* data files and datasets, the mask and the dimensions are readable, the
\* call ends by returning the populated handle.
C31_AsStated ==
    /\ (o_result = <<"NULL">>) => (~o_files.master_ok \/ ~o_files.vds_ok)
    /\ (o_pc \in {"returned", "exit"} /\ AllReadable(o_files)) =>
           (o_result = <<"handle">>)

----------------------------------------------------------------------------
\* the frame numbers a data file holds
FrameRange(file) == file.offset .. (file.offset + file.frames - 1)

\* the frame ranges of the data files partition 0 .. total - 1
PartitionsFrames(files, total) ==
    /\ \A n \in 0 .. (total - 1) : \E j \in DOMAIN files : n \in FrameRange(files[j])
    /\ \A j \in DOMAIN files : FrameRange(files[j]) \subseteq 0 .. (total - 1)
    /\ \A j, k \in DOMAIN files :
           (j # k) => (FrameRange(files[j]) \cap FrameRange(files[k]) = {})

\* C32: when the frame ranges of the data files partition 0 .. frames-1 and
\* n < frames, the search stops at the data file whose range holds n, never
\* at a file whose offset is above n, and never runs off the end of the
\* list; the frame read from that file is frame n - offset.
C32_SelectsContainingFile ==
    (rd_pc # "idle" /\ rd_n < frames /\ PartitionsFrames(data_files, frames)) =>
        /\ (rd_pc \in {"read", "returned"}) =>
               /\ data_file < Len(data_files)
               /\ rd_n \in FrameRange(data_files[data_file + 1])
        /\ (rd_pc = "find") =>
               /\ data_file < Len(data_files)
               /\ \A j \in 1 .. data_file : rd_n \notin FrameRange(data_files[j])
        /\ (rd_pc = "exit") => (rd_reads # << >>)
        /\ \A k \in DOMAIN rd_reads :
               /\ rd_reads[k].file = data_file
               /\ rd_reads[k].index = rd_n - data_files[data_file + 1].offset
               /\ rd_reads[k].index \in 0 .. (data_files[data_file + 1].frames - 1)

C32_Witness ==
    /\ rd_pc = "returned"
    /\ PartitionsFrames(data_files, frames)
    /\ Len(data_files) = 2
    /\ data_files[1].offset > rd_n
    /\ data_file = 1
    /\ rd_result = <<[file |-> 1, index |-> 1]>>

----------------------------------------------------------------------------
\* C34: for every x from 0 to the largest candidate block size,
\* is_power_of_two(x) is true exactly when x = 2^k for some k >= 0 (false for
\* 0 and for every other x), and the static assertion on BLOCK_SIZE lets the
\* build continue exactly for those x.
C34_PowerOfTwoExact ==
    (h_pc = "build") =>
        /\ is_power_of_two(b_bs) <=> IsPowerOfTwo(b_bs)
        /\ (b_pc \in {"assert_kernel_width", "built"}) => IsPowerOfTwo(b_bs)
        /\ (b_pc # "assert_block_size" /\ ~IsPowerOfTwo(b_bs)) => (b_pc = "error")
        /\ (b_pc = "error" /\ IsPowerOfTwo(b_bs)) => (b_kw < 0 \/ b_kw >= b_bs)

C34_Witness ==
    /\ b_pc = "assert_kernel_width"
    /\ b_bs = BLOCK_SIZE
    /\ is_power_of_two(b_bs)
    /\ ~is_power_of_two(b_bs - 1)
    /\ ~is_power_of_two(0)
    /\ is_power_of_two(1)

----------------------------------------------------------------------------
(* fpga_index_selector(selector) of common.hpp: the names of the devices of   *)
(* the FPGA hardware platforms are listed without duplicates and sorted, and  *)
(* the constructor keeps the name at position selector.                       *)

MaxPlatforms == 2      \* largest number of platforms of the system
MaxDeviceNames == 2    \* device names are 1 .. MaxDeviceNames, ordered as strings are

\* platform names: the FPGA hardware platform, the emulation platform, any other
PlatformNames == {"hardware", "emulation", "other"}

HARDWARE_PLATFORM_NAME == "hardware"

DeviceLists ==
    {<< >>} \cup {<<a>> : a \in 1 .. MaxDeviceNames}
            \cup {<<a, b>> : a \in 1 .. MaxDeviceNames, b \in 1 .. MaxDeviceNames}

Platforms == [name : PlatformNames, devs : DeviceLists]

\* if std::find(devices...) == devices.end() then push_back(device_name)
PushUnique(list, name) ==
    IF \E k \in DOMAIN list : list[k] = name THEN list ELSE Append(list, name)

RECURSIVE PushDevices(_, _, _)
PushDevices(list, devs, k) ==
    IF k > Len(devs) THEN list
    ELSE PushDevices(PushUnique(list, devs[k]), devs, k + 1)

\* the loop over the platforms, skipping those that are not the hardware platform
RECURSIVE EnumerateDevices(_, _, _)
EnumerateDevices(list, pfs, k) ==
    IF k > Len(pfs) THEN list
    ELSE IF pfs[k].name # HARDWARE_PLATFORM_NAME
         THEN EnumerateDevices(list, pfs, k + 1)
         ELSE EnumerateDevices(PushDevices(list, pfs[k].devs, 1), pfs, k + 1)

\* std::sort(devices.begin(), devices.end())
RECURSIVE SortNames(_)
SortNames(list) ==
    IF list = << >> THEN << >>
    ELSE LET m == CHOOSE k \in DOMAIN list : \A q \in DOMAIN list : list[k] <= list[q]
         IN  <<list[m]>> \o SortNames([q \in 1 .. (Len(list) - 1) |->
                                          IF q < m THEN list[q] ELSE list[q + 1]])

get_device_list(pfs) == SortNames(EnumerateDevices(<< >>, pfs, 1))

\* selector + 1 > devices.size(): the int sum is converted to size_t, so a
\* negative sum becomes a value above every list size
selector_too_high(sel, size) ==
    IF sel + 1 < 0 THEN TRUE ELSE sel + 1 > size

InitSelector ==
    /\ capacity = PIPE_DEPTH
    /\ platforms \in UNION {[1 .. c -> Platforms] : c \in 0 .. MaxPlatforms}
    /\ selector \in (-2) .. (MaxDeviceNames + 1)
    /\ s_pc = "call" /\ devices = << >> /\ indexed_device_name = << >>
    /\ E2XE_16M_FAST = 1 /\ slow = 1 /\ fast = 1
    /\ image_data = << >>
    /\ h_pc = "selector"
    /\ PipelineOff
    /\ RefIdle
    /\ BuildIdle /\ BlitIdle /\ LanesIdle /\ ReaderIdle /\ OpenIdle

\* auto devices = get_device_list();
SelectorGetDeviceList ==
    /\ s_pc = "call"
    /\ devices' = get_device_list(platforms)
    /\ s_pc' = "check"
    /\ UNCHANGED <<notSel, selector, platforms, indexed_device_name>>

\* if (selector + 1 > devices.size()) throw std::runtime_error(...)
SelectorCheck ==
    /\ s_pc = "check"
    /\ s_pc' = IF selector_too_high(selector, Len(devices)) THEN "thrown" ELSE "index"
    /\ UNCHANGED <<notSel, selector, platforms, devices, indexed_device_name>>

\* indexed_device_name = devices[selector]; operator[] does no range check:
\* outside the list the read yields any name, or the program crashes
SelectorIndex ==
    /\ s_pc = "index"
    /\ IF selector \in 0 .. (Len(devices) - 1)
       THEN /\ indexed_device_name' = <<devices[selector + 1]>>
            /\ s_pc' = "constructed"
       ELSE \/ /\ \E g \in 0 .. MaxDeviceNames : indexed_device_name' = <<g>>
               /\ s_pc' = "constructed"
            \/ /\ s_pc' = "crashed"
               /\ indexed_device_name' = indexed_device_name
    /\ UNCHANGED <<notSel, selector, platforms, devices>>

NextSelector ==
    \/ SelectorGetDeviceList
    \/ SelectorCheck
    \/ SelectorIndex

SpecSelector == InitSelector /\ [][NextSelector]_vars

\* C33 (as stated): with an index that is not a position of the sorted device
\* list (negative, or >= the number of devices) the constructor throws and
\* never reaches the indexing of the list; with a valid index it keeps the
\* name at that position of the sorted, duplicate-free list.
C33_AsStated ==
    (s_pc \in {"thrown", "index", "constructed", "crashed"}) =>
        IF selector < 0 \/ selector >= Len(devices)
        THEN s_pc = "thrown"
        ELSE /\ s_pc \in {"index", "constructed"}
             /\ (s_pc = "constructed") => (indexed_device_name = <<devices[selector + 1]>>)
             /\ \A k \in 1 .. (Len(devices) - 1) : devices[k] < devices[k + 1]

====
